---- MODULE Spec2Model ----
(***************************************************************************)
(* Model of the ICS parsing pipeline of @jalexw/calendar-ics-parser:       *)
(* unfoldLines -> parseIntoBlocks (parsePropertyLine per line) ->          *)
(* parseCalendarBlock (parseEventBlock, ... , zod schemas) -> metadata.    *)
(*                                                                         *)
(* A JavaScript string is a sequence of one-character strings, so that     *)
(* every scan, split, trim and replace of the source is computed and not   *)
(* assumed.  A JavaScript object with optional keys is a function whose    *)
(* DOMAIN is the set of keys that are present.                             *)
(***************************************************************************)
EXTENDS Integers, Sequences, FiniteSets, TLC

(***************************************************************************)
(* Characters                                                              *)
(***************************************************************************)
CR == "\r"
LF == "\n"
TAB == "\t"
SP == " "
BS == "\\"
DQ == "\""

\* the characters String.prototype.trim removes (those that occur in inputs)
WhiteSpace == {SP, TAB, CR, LF}

Digits == {"0", "1", "2", "3", "4", "5", "6", "7", "8", "9"}

LowerCase == <<"a", "b", "c", "d", "e", "f", "g", "h", "i", "j", "k", "l", "m",
               "n", "o", "p", "q", "r", "s", "t", "u", "v", "w", "x", "y", "z">>
UpperCase == <<"A", "B", "C", "D", "E", "F", "G", "H", "I", "J", "K", "L", "M",
               "N", "O", "P", "Q", "R", "S", "T", "U", "V", "W", "X", "Y", "Z">>

UpperChar(c) ==
  IF \E k \in 1..26 : LowerCase[k] = c
  THEN UpperCase[CHOOSE k \in 1..26 : LowerCase[k] = c]
  ELSE c

(***************************************************************************)
(* String primitives of the JavaScript runtime, as the source uses them    *)
(***************************************************************************)
toUpperCase(s) == [k \in 1..Len(s) |-> UpperChar(s[k])]

\* s.indexOf(c): 1-based position of the first c, 0 when there is none
\* (the source's -1)
indexOf(s, c) ==
  IF \E k \in 1..Len(s) : s[k] = c
  THEN CHOOSE k \in 1..Len(s) : s[k] = c /\ \A j \in 1..(k - 1) : s[j] # c
  ELSE 0

startsWith(s, p) == Len(s) >= Len(p) /\ SubSeq(s, 1, Len(p)) = p

endsWith(s, p) == Len(s) >= Len(p) /\ SubSeq(s, Len(s) - Len(p) + 1, Len(s)) = p

\* s.substring(n) with n counted in characters to drop
substringFrom(s, n) == SubSeq(s, n + 1, Len(s))

trim(s) ==
  LET keep == {k \in 1..Len(s) : s[k] \notin WhiteSpace}
  IN IF keep = {} THEN <<>>
     ELSE SubSeq(s, CHOOSE k \in keep : \A j \in keep : k <= j,
                    CHOOSE k \in keep : \A j \in keep : k >= j)

\* s.split(c) for a one-character separator: always at least one piece
split(s, c) ==
  LET at == SelectSeq([k \in 1..Len(s) |-> k], LAMBDA k : s[k] = c)
  IN [j \in 1..(Len(at) + 1) |->
        SubSeq(s, IF j = 1 THEN 1 ELSE at[j - 1] + 1,
                  IF j = Len(at) + 1 THEN Len(s) ELSE at[j] - 1)]

\* pieces.join(sep)
RECURSIVE join(_, _)
join(pieces, sep) ==
  IF Len(pieces) = 0 THEN <<>>
  ELSE IF Len(pieces) = 1 THEN pieces[1]
  ELSE pieces[1] \o sep \o join(Tail(pieces), sep)

\* s.replace(/ab/g, r) for a two-character pattern: one left-to-right pass,
\* matches do not overlap and the replacement is not scanned again
RECURSIVE replacePair(_, _, _, _)
replacePair(s, a, b, r) ==
  IF Len(s) = 0 THEN <<>>
  ELSE IF Len(s) >= 2 /\ s[1] = a /\ s[2] = b
       THEN r \o replacePair(SubSeq(s, 3, Len(s)), a, b, r)
       ELSE <<s[1]>> \o replacePair(Tail(s), a, b, r)

\* array.filter(p) is SelectSeq; array.flat() of an array of arrays
RECURSIVE flatten(_)
flatten(ss) == IF Len(ss) = 0 THEN <<>> ELSE ss[1] \o flatten(Tail(ss))

\* JavaScript computes a value where it is assigned: a loop that reads
\* Evaluated(v) has v computed before its next pass, not at its end
Evaluated(v) == v = v

(***************************************************************************)
(* Objects with optional keys                                              *)
(***************************************************************************)
EmptyObject == [k \in {} |-> <<>>]

Has(o, k) == k \in DOMAIN o

\* o[k] = v
Put(o, k, v) == [j \in (DOMAIN o) \cup {k} |-> IF j = k THEN v ELSE o[j]]

\* delete o[k]
Delete(o, k) == [j \in (DOMAIN o) \ {k} |-> o[j]]

(***************************************************************************)
(* src/utils/icsUtils.ts                                                   *)
(***************************************************************************)

\* s without the characters at the positions in `dead`
deleteAt(s, dead) ==
  LET kept == SelectSeq([k \in 1..Len(s) |-> <<k, s[k]>>], LAMBDA p : p[1] \notin dead)
  IN [j \in 1..Len(kept) |-> kept[j][2]]

\* the positions covered by the matches of a pattern of `width` characters
\* that cannot overlap itself, given the positions where a match starts
covered(starts, width) == {k + d : k \in starts, d \in 0..(width - 1)}

\* an unfolding that leaves the CRLF folds in place
keepCrlfFold(s) == s

\* content.replace(/\r\n[ \t]/g, ""): two matches never overlap, so every
\* position where the pattern occurs is a match of the global replace
removeCrlfFold(s) ==
  deleteAt(s, covered({k \in 1..(Len(s) - 2) :
                         s[k] = CR /\ s[k + 1] = LF /\ s[k + 2] \in {SP, TAB}}, 3))

\* .replace(/\n[ \t]/g, "")
removeLfFold(s) ==
  deleteAt(s, covered({k \in 1..(Len(s) - 1) : s[k] = LF /\ s[k + 1] \in {SP, TAB}}, 2))

\* .replace(/\r?\n/g, "\n"): a CR directly before a LF goes away
normalizeLineEndings(s) ==
  deleteAt(s, {k \in 1..(Len(s) - 1) : s[k] = CR /\ s[k + 1] = LF})

isNotBlank(line) == Len(trim(line)) > 0

unfoldLines(content) ==
  SelectSeq(split(normalizeLineEndings(removeLfFold(removeCrlfFold(content))), LF),
            isNotBlank)

\* six global replaces, one after the other, each over the previous result
unescapeValue(value) ==
  LET r1 == replacePair(value, BS, "n", <<LF>>)
      r2 == replacePair(r1, BS, "r", <<CR>>)
      r3 == replacePair(r2, BS, "t", <<TAB>>)
      r4 == replacePair(r3, BS, ";", <<";">>)
      r5 == replacePair(r4, BS, ",", <<",">>)
  IN replacePair(r5, BS, BS, <<BS>>)

\* one "KEY=VALUE" pair of parseParameters' loop body, applied to the
\* parameters collected so far
parseParameterPair(parameters, pair) ==
  LET equalIndex == indexOf(pair, "=")
      key == toUpperCase(SubSeq(pair, 1, equalIndex - 1))
      raw == SubSeq(pair, equalIndex + 1, Len(pair))
      value == IF startsWith(raw, <<DQ>>) /\ endsWith(raw, <<DQ>>)
               THEN SubSeq(raw, 2, Len(raw) - 1)
               ELSE raw
  IN IF equalIndex # 0 THEN Put(parameters, key, value) ELSE parameters

RECURSIVE parseParameterPairs(_, _)
parseParameterPairs(parameters, pairs) ==
  IF Len(pairs) = 0 THEN parameters
  ELSE parseParameterPairs(parseParameterPair(parameters, pairs[1]), Tail(pairs))

parseParameters(paramString) ==
  parseParameterPairs(EmptyObject, split(paramString, ";"))

\* parsePropertyLine throws when the line holds no colon
parsePropertyLineThrows(line) == indexOf(line, ":") = 0

parsePropertyLine(line) ==
  LET colonIndex == indexOf(line, ":")
      propertyPart == SubSeq(line, 1, colonIndex - 1)
      value == SubSeq(line, colonIndex + 1, Len(line))
      semicolonIndex == indexOf(propertyPart, ";")
      name == IF semicolonIndex = 0 THEN propertyPart
              ELSE SubSeq(propertyPart, 1, semicolonIndex - 1)
      parameters == IF semicolonIndex = 0 THEN EmptyObject
                    ELSE parseParameters(SubSeq(propertyPart, semicolonIndex + 1,
                                                Len(propertyPart)))
  IN [name |-> toUpperCase(name),
      parameters |-> parameters,
      value |-> unescapeValue(value)]


\* the loop of splitCommaSeparated from character position 1 of `value`,
\* with the loop's three variables
RECURSIVE splitCommaScan(_, _, _, _)
splitCommaScan(value, result, current, escaped) ==
  IF Len(value) = 0
  THEN IF Len(trim(current)) > 0
       THEN Append(result, unescapeValue(trim(current)))
       ELSE result
  ELSE LET char == Head(value)
           rest == Tail(value)
       IN IF escaped THEN splitCommaScan(rest, result, Append(current, char), FALSE)
          ELSE IF char = BS
               THEN splitCommaScan(rest, result, Append(current, char), TRUE)
          ELSE IF char = ","
               THEN splitCommaScan(rest, Append(result, unescapeValue(trim(current))),
                                   <<>>, FALSE)
          ELSE splitCommaScan(rest, result, Append(current, char), FALSE)

splitCommaSeparated(value) == splitCommaScan(value, <<>>, <<>>, FALSE)

\* parameters.K || undefined: the key is kept only for a non-empty value
PutTruthy(o, k, parameters, p) ==
  IF Has(parameters, p) /\ Len(parameters[p]) > 0 THEN Put(o, k, parameters[p]) ELSE o

parsePersonProperty(value, parameters) ==
  LET email == IF startsWith(value, <<"m", "a", "i", "l", "t", "o", ":">>) THEN substringFrom(value, 7) ELSE value
      o1 == PutTruthy([email |-> email], "commonName", parameters, <<"C", "N">>)
      o2 == PutTruthy(o1, "role", parameters, <<"R", "O", "L", "E">>)
      o3 == PutTruthy(o2, "partstat", parameters, <<"P", "A", "R", "T", "S", "T", "A", "T">>)
  IN IF Has(parameters, <<"R", "S", "V", "P">>) /\ parameters[<<"R", "S", "V", "P">>] = <<"T", "R", "U", "E">>
     THEN Put(o3, "rsvp", TRUE)
     ELSE o3

(***************************************************************************)
(* JavaScript numbers, as far as parseInt(text, 10) produces them          *)
(***************************************************************************)
NaN == [isNaN |-> TRUE, value |-> 0]
Number(n) == [isNaN |-> FALSE, value |-> n]

DigitValue(c) == CHOOSE d \in 0..9 : <<"0", "1", "2", "3", "4", "5", "6", "7", "8", "9">>[d + 1] = c

RECURSIVE trimStart(_)
trimStart(s) == IF Len(s) > 0 /\ s[1] \in WhiteSpace THEN trimStart(Tail(s)) ELSE s

\* value of the longest prefix of decimal digits, continuing from `acc`
RECURSIVE digitPrefixValue(_, _)
digitPrefixValue(s, acc) ==
  IF Len(s) > 0 /\ s[1] \in Digits
  THEN digitPrefixValue(Tail(s), 10 * acc + DigitValue(s[1]))
  ELSE acc

\* parseInt(text, 10): leading white space and one sign are skipped, the
\* longest digit prefix is read and whatever follows is ignored; NaN when
\* no digit is found
parseInt(text) ==
  LET s == trimStart(text)
      signed == Len(s) > 0 /\ s[1] \in {"-", "+"}
      body == IF signed THEN Tail(s) ELSE s
      magnitude == digitPrefixValue(body, 0)
  IN IF Len(body) = 0 \/ body[1] \notin Digits THEN NaN
     ELSE IF signed /\ s[1] = "-" THEN Number(0 - magnitude)
     ELSE Number(magnitude)

(***************************************************************************)
(* src/types/IcsEvent.ts: the zod schemas of an event                      *)
(***************************************************************************)
AllDigits(s) == \A k \in 1..Len(s) : s[k] \in Digits

\* the pattern without its optional Z: /^\d{8}T\d{6}$/
icsDateTimeSchemaLocalOnly(s) ==
  /\ Len(s) = 15
  /\ AllDigits(SubSeq(s, 1, 8))
  /\ s[9] = "T"
  /\ AllDigits(SubSeq(s, 10, 15))

\* /^\d{8}T\d{6}Z?$/
icsDateTimeSchema(s) ==
  /\ Len(s) \in {15, 16}
  /\ AllDigits(SubSeq(s, 1, 8))
  /\ s[9] = "T"
  /\ AllDigits(SubSeq(s, 10, 15))
  /\ Len(s) = 16 => s[16] = "Z"

\* /^\d{8}$/
icsDateSchema(s) == Len(s) = 8 /\ AllDigits(s)

icsDateOrDateTimeSchema(s) == icsDateSchema(s) \/ icsDateTimeSchema(s)

\* /^FREQ=/
rruleSchema(s) == startsWith(s, <<"F", "R", "E", "Q", "=">>)

\* /^-?\d+\.?\d*$/, one half of the GEO pattern
geoNumber(s) ==
  LET body == IF Len(s) > 0 /\ s[1] = "-" THEN Tail(s) ELSE s
  IN /\ Len(body) > 0
     /\ body[1] \in Digits
     /\ \A k \in 1..Len(body) : body[k] \in Digits \cup {"."}
     /\ Cardinality({k \in 1..Len(body) : body[k] = "."}) <= 1

\* /^-?\d+\.?\d*;-?\d+\.?\d*$/
geoSchema(s) ==
  LET k == indexOf(s, ";")
  IN k # 0 /\ geoNumber(SubSeq(s, 1, k - 1)) /\ geoNumber(SubSeq(s, k + 1, Len(s)))

\* a number schema without bounds
anyInteger(n, lo, hi) == ~n.isNaN

\* z.number().int().min(lo).max(hi)
intInRange(n, lo, hi) == ~n.isNaN /\ n.value >= lo /\ n.value <= hi

\* z.number().int().min(0)
prioritySchema(n) == intInRange(n, 0, 9)
sequenceSchema(n) == ~n.isNaN /\ n.value >= 0

\* a status schema that accepts every string
anyStatus(s) == TRUE

eventStatusSchema(s) == s \in {<<"T", "E", "N", "T", "A", "T", "I", "V", "E">>, <<"C", "O", "N", "F", "I", "R", "M", "E", "D">>, <<"C", "A", "N", "C", "E", "L", "L", "E", "D">>}
classSchema(s) == s \in {<<"P", "U", "B", "L", "I", "C">>, <<"P", "R", "I", "V", "A", "T", "E">>, <<"C", "O", "N", "F", "I", "D", "E", "N", "T", "I", "A", "L">>}
transparencySchema(s) == s \in {<<"O", "P", "A", "Q", "U", "E">>, <<"T", "R", "A", "N", "S", "P", "A", "R", "E", "N", "T">>}

Letters == {LowerCase[k] : k \in 1..26} \cup {UpperCase[k] : k \in 1..26}
AlphaNum == Letters \cup Digits

\* z.string().email(): zod's pattern
\* /^(?!\.)(?!.*\.\.)([A-Z0-9_'+\-\.]*)[A-Z0-9_+-]@([A-Z0-9][A-Z0-9\-]*\.)+[A-Z]{2,}$/i
isEmail(s) ==
  LET at == indexOf(s, "@")
      local == SubSeq(s, 1, at - 1)
      labels == split(SubSeq(s, at + 1, Len(s)), ".")
      last == labels[Len(labels)]
  IN /\ at > 1
     /\ \A k \in 1..Len(local) : local[k] \in AlphaNum \cup {"_", "'", "+", "-", "."}
     /\ local[1] # "."
     /\ local[Len(local)] \in AlphaNum \cup {"_", "+", "-"}
     /\ \A k \in 1..(Len(s) - 1) : ~(s[k] = "." /\ s[k + 1] = ".")
     /\ Len(labels) >= 2
     /\ \A j \in 1..(Len(labels) - 1) :
          /\ Len(labels[j]) > 0
          /\ labels[j][1] \in AlphaNum
          /\ \A k \in 1..Len(labels[j]) : labels[j][k] \in AlphaNum \cup {"-"}
     /\ Len(last) >= 2
     /\ \A k \in 1..Len(last) : last[k] \in Letters

\* z.string().url(): the text parses as an absolute URL, that is, it starts
\* with a scheme (a letter, then letters, digits, "+", "-", "."), a colon
\* and, for the schemes that need one, a host
isUrl(s) ==
  LET t == trim(s)
      colon == indexOf(t, ":")
      scheme == toUpperCase(SubSeq(t, 1, colon - 1))
      rest == SubSeq(t, colon + 1, Len(t))
      host == SelectSeq(rest, LAMBDA c : c \notin {"/", BS})
  IN /\ colon > 1
     /\ t[1] \in Letters
     /\ \A k \in 1..(colon - 1) : t[k] \in AlphaNum \cup {"+", "-", "."}
     /\ scheme \in {<<"H", "T", "T", "P">>, <<"H", "T", "T", "P", "S">>, <<"F", "T", "P">>, <<"W", "S">>, <<"W", "S", "S">>} => Len(host) > 0

roleSchema(s) ==
  s \in {<<"C", "H", "A", "I", "R">>, <<"R", "E", "Q", "-", "P", "A", "R", "T", "I", "C", "I", "P", "A", "N", "T">>, <<"O", "P", "T", "-", "P", "A", "R", "T", "I", "C", "I", "P", "A", "N", "T">>, <<"N", "O", "N", "-", "P", "A", "R", "T", "I", "C", "I", "P", "A", "N", "T">>}
partstatSchema(s) ==
  s \in {<<"N", "E", "E", "D", "S", "-", "A", "C", "T", "I", "O", "N">>, <<"A", "C", "C", "E", "P", "T", "E", "D">>, <<"D", "E", "C", "L", "I", "N", "E", "D">>, <<"T", "E", "N", "T", "A", "T", "I", "V", "E">>, <<"D", "E", "L", "E", "G", "A", "T", "E", "D">>}

attendeeSchema(p) ==
  /\ isEmail(p.email)
  /\ Has(p, "role") => roleSchema(p.role)
  /\ Has(p, "partstat") => partstatSchema(p.partstat)

organizerSchema(p) == isEmail(p.email)

\* a non-strict z.object keeps the keys of its shape and strips the others
organizerSchemaOutput(p) == [k \in (DOMAIN p) \cap {"email", "commonName"} |-> p[k]]

\* key k of o is absent, or satisfies the schema P
Optional(o, k, P(_)) == Has(o, k) => P(o[k])

Each(o, k, P(_)) == Has(o, k) => \A j \in 1..Len(o[k]) : P(o[k][j])

NonEmptyString(s) == Len(s) >= 1

\* the object schema of an event, before the refinement
icsEventObjectSchema(event) ==
  /\ Has(event, "uid") /\ NonEmptyString(event.uid)
  /\ Has(event, "dtstamp") /\ icsDateTimeSchema(event.dtstamp)
  /\ Optional(event, "dtstart", icsDateOrDateTimeSchema)
  /\ Optional(event, "class", classSchema)
  /\ Optional(event, "created", icsDateTimeSchema)
  /\ Optional(event, "dtend", icsDateOrDateTimeSchema)
  /\ Optional(event, "geo", geoSchema)
  /\ Optional(event, "lastModified", icsDateTimeSchema)
  /\ Optional(event, "organizer", organizerSchema)
  /\ Optional(event, "priority", prioritySchema)
  /\ Optional(event, "sequence", sequenceSchema)
  /\ Optional(event, "status", eventStatusSchema)
  /\ Optional(event, "transp", transparencySchema)
  /\ Optional(event, "url", isUrl)
  /\ Optional(event, "recurid", icsDateOrDateTimeSchema)
  /\ Optional(event, "rrule", rruleSchema)
  /\ Each(event, "attendee", attendeeSchema)
  /\ Each(event, "exdate", icsDateOrDateTimeSchema)
  /\ Each(event, "rdate", icsDateOrDateTimeSchema)

\* the refinement, were it to test for truthy values (data.dtend &&
\* data.duration) instead of defined ones
dtendXorDurationTruthy(event) ==
  ~(/\ Has(event, "dtend") /\ event.dtend # <<>>
    /\ Has(event, "duration") /\ event.duration # <<>>)

\* the refinement: DTEND and DURATION cannot both be present
dtendXorDuration(event) == ~(Has(event, "dtend") /\ Has(event, "duration"))

\* icsEventSchema.parse(event) returns (TRUE) or throws (FALSE)
icsEventSchema(event) == icsEventObjectSchema(event) /\ dtendXorDuration(event)

\* what icsEventSchema.parse returns for an event it accepts
icsEventSchemaOutput(event) ==
  IF Has(event, "organizer")
  THEN Put(event, "organizer", organizerSchemaOutput(event.organizer))
  ELSE event

(***************************************************************************)
(* src/parseIcsData.ts: the component mappers                              *)
(***************************************************************************)

\* the items put before the elements of the array
Unshift(o, k, items) == Put(o, k, items \o o[k])

\* event.k.push(...items)
Push(o, k, items) == Put(o, k, o[k] \o items)

\* one pass of the switch in parseEventBlock's loop over block.properties
parseEventProperty(event, prop) ==
  LET n == prop.name
      v == prop.value
  IN CASE n = <<"U", "I", "D">> -> Put(event, "uid", v)
       [] n = <<"D", "T", "S", "T", "A", "M", "P">> -> Put(event, "dtstamp", v)
       [] n = <<"D", "T", "S", "T", "A", "R", "T">> -> Put(event, "dtstart", v)
       [] n = <<"D", "T", "E", "N", "D">> -> Put(event, "dtend", v)
       [] n = <<"D", "U", "R", "A", "T", "I", "O", "N">> -> Put(event, "duration", v)
       [] n = <<"S", "U", "M", "M", "A", "R", "Y">> -> Put(event, "summary", v)
       [] n = <<"D", "E", "S", "C", "R", "I", "P", "T", "I", "O", "N">> -> Put(event, "description", v)
       [] n = <<"L", "O", "C", "A", "T", "I", "O", "N">> -> Put(event, "location", v)
       [] n = <<"S", "T", "A", "T", "U", "S">> -> Put(event, "status", v)
       [] n = <<"C", "L", "A", "S", "S">> -> Put(event, "class", v)
       [] n = <<"T", "R", "A", "N", "S", "P">> -> Put(event, "transp", v)
       [] n = <<"P", "R", "I", "O", "R", "I", "T", "Y">> -> Put(event, "priority", parseInt(v))
       [] n = <<"S", "E", "Q", "U", "E", "N", "C", "E">> -> Put(event, "sequence", parseInt(v))
       [] n = <<"C", "R", "E", "A", "T", "E", "D">> -> Put(event, "created", v)
       [] n = <<"L", "A", "S", "T", "-", "M", "O", "D", "I", "F", "I", "E", "D">> -> Put(event, "lastModified", v)
       [] n = <<"U", "R", "L">> -> Put(event, "url", v)
       [] n = <<"G", "E", "O">> -> Put(event, "geo", v)
       [] n = <<"R", "E", "C", "U", "R", "I", "D">> -> Put(event, "recurid", v)
       [] n = <<"R", "R", "U", "L", "E">> -> Put(event, "rrule", v)
       [] n = <<"O", "R", "G", "A", "N", "I", "Z", "E", "R">> ->
            Put(event, "organizer", parsePersonProperty(v, prop.parameters))
       [] n = <<"A", "T", "T", "E", "N", "D", "E", "E">> ->
            Push(event, "attendee", <<parsePersonProperty(v, prop.parameters)>>)
       [] n = <<"C", "A", "T", "E", "G", "O", "R", "I", "E", "S">> -> Push(event, "categories", splitCommaSeparated(v))
       [] n = <<"C", "O", "M", "M", "E", "N", "T">> -> Push(event, "comment", <<v>>)
       [] n = <<"C", "O", "N", "T", "A", "C", "T">> -> Push(event, "contact", <<v>>)
       [] n = <<"A", "T", "T", "A", "C", "H">> -> Push(event, "attach", <<v>>)
       [] n = <<"E", "X", "D", "A", "T", "E">> -> Push(event, "exdate", splitCommaSeparated(v))
       [] n = <<"R", "E", "L", "A", "T", "E", "D">> -> Push(event, "related", <<v>>)
       [] n = <<"R", "E", "S", "O", "U", "R", "C", "E", "S">> -> Push(event, "resources", splitCommaSeparated(v))
       [] n = <<"R", "D", "A", "T", "E">> -> Push(event, "rdate", splitCommaSeparated(v))
       [] OTHER ->
            IF startsWith(n, <<"X", "-">>)
            THEN Put(event, "customProperties", Put(event.customProperties, n, v))
            ELSE event

\* a for loop over properties, applying one switch pass per property
RECURSIVE ForEachProperty(_, _, _)
ForEachProperty(step(_, _), o, properties) ==
  IF Evaluated(o) /\ Len(properties) = 0 THEN o
  ELSE ForEachProperty(step, step(o, properties[1]), Tail(properties))

\* the keys parseEventBlock starts with as empty arrays
EventArrayKeys == {"attendee", "categories", "comment", "contact", "attach",
                   "exdate", "related", "resources", "rdate"}

\* a clean-up that deletes no key
noEmptyKeys(event) == {}

\* "Clean up empty arrays": the keys deleted before validation
EventEmptyKeys(event) ==
  {k \in EventArrayKeys : Len(event[k]) = 0}
    \cup (IF DOMAIN event.customProperties = {} THEN {"customProperties"} ELSE {})

\* the candidate event handed to icsEventSchema.parse
deleteEmptyKeys(event) == [k \in (DOMAIN event) \ EventEmptyKeys(event) |-> event[k]]

parseEventCandidate(block) ==
  deleteEmptyKeys(
    ForEachProperty(parseEventProperty,
                    [k \in EventArrayKeys \cup {"customProperties"} |->
                       IF k = "customProperties" THEN EmptyObject ELSE <<>>],
                    block.properties))

\* icsEventSchema.parse(event): ok = FALSE stands for the ZodError it throws
icsEventSchemaParse(event) ==
  IF icsEventSchema(event)
  THEN [ok |-> TRUE, value |-> icsEventSchemaOutput(event)]
  ELSE [ok |-> FALSE, value |-> "ZodError"]

parseEventBlock(block) == icsEventSchemaParse(parseEventCandidate(block))

\* a custom property that is kept at its first occurrence
PutCustomOnce(o, prop) ==
  IF startsWith(prop.name, <<"X", "-">>) /\ ~Has(o.customProperties, prop.name)
  THEN Put(o, "customProperties", Put(o.customProperties, prop.name, prop.value))
  ELSE o

PutCustom(o, prop) ==
  IF startsWith(prop.name, <<"X", "-">>)
  THEN Put(o, "customProperties", Put(o.customProperties, prop.name, prop.value))
  ELSE o

DeleteEmptyCustom(o) ==
  IF DOMAIN o.customProperties = {} THEN Delete(o, "customProperties") ELSE o

parseTodoProperty(todo, prop) ==
  LET n == prop.name
      v == prop.value
  IN CASE n = <<"U", "I", "D">> -> Put(todo, "uid", v)
       [] n = <<"D", "T", "S", "T", "A", "M", "P">> -> Put(todo, "dtstamp", v)
       [] n = <<"S", "U", "M", "M", "A", "R", "Y">> -> Put(todo, "summary", v)
       [] n = <<"D", "E", "S", "C", "R", "I", "P", "T", "I", "O", "N">> -> Put(todo, "description", v)
       [] n = <<"P", "R", "I", "O", "R", "I", "T", "Y">> -> Put(todo, "priority", parseInt(v))
       [] n = <<"S", "T", "A", "T", "U", "S">> -> Put(todo, "status", v)
       [] n = <<"D", "U", "E">> -> Put(todo, "due", v)
       [] n = <<"C", "O", "M", "P", "L", "E", "T", "E", "D">> -> Put(todo, "completed", v)
       [] n = <<"P", "E", "R", "C", "E", "N", "T", "-", "C", "O", "M", "P", "L", "E", "T", "E">> -> Put(todo, "percentComplete", parseInt(v))
       [] OTHER -> PutCustom(todo, prop)

\* parseTodoBlock validates nothing and never throws
parseTodoBlock(block) ==
  DeleteEmptyCustom(ForEachProperty(parseTodoProperty,
                                    [customProperties |-> EmptyObject],
                                    block.properties))

parseJournalProperty(journal, prop) ==
  LET n == prop.name
      v == prop.value
  IN CASE n = <<"U", "I", "D">> -> Put(journal, "uid", v)
       [] n = <<"D", "T", "S", "T", "A", "M", "P">> -> Put(journal, "dtstamp", v)
       [] n = <<"S", "U", "M", "M", "A", "R", "Y">> -> Put(journal, "summary", v)
       [] n = <<"D", "E", "S", "C", "R", "I", "P", "T", "I", "O", "N">> -> Put(journal, "description", v)
       [] n = <<"D", "T", "S", "T", "A", "R", "T">> -> Put(journal, "dtstart", v)
       [] OTHER -> PutCustom(journal, prop)

parseJournalBlock(block) ==
  DeleteEmptyCustom(ForEachProperty(parseJournalProperty,
                                    [customProperties |-> EmptyObject],
                                    block.properties))

parseFreebusyProperty(freebusy, prop) ==
  LET n == prop.name
      v == prop.value
  IN CASE n = <<"U", "I", "D">> -> Put(freebusy, "uid", v)
       [] n = <<"D", "T", "S", "T", "A", "M", "P">> -> Put(freebusy, "dtstamp", v)
       [] n = <<"O", "R", "G", "A", "N", "I", "Z", "E", "R">> -> Put(freebusy, "organizer", v)
       [] n = <<"D", "T", "S", "T", "A", "R", "T">> -> Put(freebusy, "dtstart", v)
       [] n = <<"D", "T", "E", "N", "D">> -> Put(freebusy, "dtend", v)
       [] n = <<"F", "R", "E", "E", "B", "U", "S", "Y">> -> Push(freebusy, "freebusy", <<v>>)
       [] OTHER -> PutCustom(freebusy, prop)

DeleteEmptyFreebusy(o) == IF Len(o.freebusy) = 0 THEN Delete(o, "freebusy") ELSE o

parseFreebusyBlock(block) ==
  DeleteEmptyFreebusy(
    DeleteEmptyCustom(
      ForEachProperty(parseFreebusyProperty,
                      [customProperties |-> EmptyObject, freebusy |-> <<>>],
                      block.properties)))

\* `${prop.name}:${prop.value}`
PropertyText(prop) == prop.name \o <<":">> \o prop.value

PropertyTexts(properties) == [k \in 1..Len(properties) |-> PropertyText(properties[k])]

\* the lines parseTimezoneBlock pushes for one sub-component
TimezoneSubComponentTexts(subComp) ==
  <<<<"B", "E", "G", "I", "N", ":">> \o subComp.type>> \o PropertyTexts(subComp.properties)
    \o <<<<"E", "N", "D", ":">> \o subComp.type>>

\* the last TZID property wins; "" when there is none
TimezoneTzid(properties) ==
  LET at == {k \in 1..Len(properties) : properties[k].name = <<"T", "Z", "I", "D">>}
  IN IF at = {} THEN <<>>
     ELSE properties[CHOOSE k \in at : \A j \in at : j <= k].value

parseTimezoneBlock(block) ==
  [tzid |-> TimezoneTzid(block.properties),
   rawData |-> join(PropertyTexts(block.properties)
                      \o flatten([k \in 1..Len(block.subComponents) |->
                                    TimezoneSubComponentTexts(block.subComponents[k])]),
                    <<LF>>)]

\* JSON.stringify(block): a string that determines the block, kept as the
\* block under a tag instead of spelled out character by character
JSONstringify(block) == <<"JSON", block>>

(***************************************************************************)
(* src/types/IcsCalendar.ts: the zod schemas of a calendar                 *)
(***************************************************************************)
Required(o, k) == Has(o, k)

icsTodoSchema(todo) ==
  /\ Required(todo, "uid")
  /\ Required(todo, "dtstamp")
  /\ Has(todo, "priority") => intInRange(todo.priority, 0, 9)
  /\ Has(todo, "status") =>
       todo.status \in {<<"N", "E", "E", "D", "S", "-", "A", "C", "T", "I", "O", "N">>, <<"C", "O", "M", "P", "L", "E", "T", "E", "D">>, <<"I", "N", "-", "P", "R", "O", "C", "E", "S", "S">>, <<"C", "A", "N", "C", "E", "L", "L", "E", "D">>}
  /\ Has(todo, "percentComplete") => intInRange(todo.percentComplete, 0, 100)

icsJournalSchema(journal) == Required(journal, "uid") /\ Required(journal, "dtstamp")

icsFreebusySchema(freebusy) == Required(freebusy, "uid") /\ Required(freebusy, "dtstamp")

\* a version schema that accepts every string
anyVersion(s) == TRUE

versionSchema(s) == s = <<"2", ".", "0">>

prodidSchema(s) == Len(s) >= 1

calscaleSchema(s) == s = <<"G", "R", "E", "G", "O", "R", "I", "A", "N">>

methodSchema(s) ==
  s \in {<<"P", "U", "B", "L", "I", "S", "H">>, <<"R", "E", "Q", "U", "E", "S", "T">>, <<"R", "E", "P", "L", "Y">>, <<"A", "D", "D">>, <<"C", "A", "N", "C", "E", "L">>, <<"R", "E", "F", "R", "E", "S", "H">>, <<"C", "O", "U", "N", "T", "E", "R">>,
         <<"D", "E", "C", "L", "I", "N", "E", "C", "O", "U", "N", "T", "E", "R">>}

\* icsCalendarSchema.parse(calendar) returns (TRUE) or throws (FALSE); the
\* arrays of the calendar are validated element by element
icsCalendarSchema(calendar) ==
  /\ Has(calendar, "version") /\ versionSchema(calendar.version)
  /\ Has(calendar, "prodid") /\ prodidSchema(calendar.prodid)
  /\ Optional(calendar, "calscale", calscaleSchema)
  /\ Optional(calendar, "method", methodSchema)
  /\ Each(calendar, "events", icsEventSchema)
  /\ Each(calendar, "todos", icsTodoSchema)
  /\ Each(calendar, "journals", icsJournalSchema)
  /\ Each(calendar, "freebusys", icsFreebusySchema)

\* one pass of the switch in parseCalendarBlock's loop over block.properties
parseCalendarProperty(calendar, prop) ==
  LET n == prop.name
      v == prop.value
  IN CASE n = <<"V", "E", "R", "S", "I", "O", "N">> -> Put(calendar, "version", v)
       [] n = <<"P", "R", "O", "D", "I", "D">> -> Put(calendar, "prodid", v)
       [] n = <<"C", "A", "L", "S", "C", "A", "L", "E">> -> Put(calendar, "calscale", v)
       [] n = <<"M", "E", "T", "H", "O", "D">> -> Put(calendar, "method", v)
       [] n = <<"X", "-", "W", "R", "-", "C", "A", "L", "N", "A", "M", "E">> -> Put(calendar, "calname", v)
       [] n = <<"X", "-", "W", "R", "-", "C", "A", "L", "D", "E", "S", "C">> -> Put(calendar, "caldesc", v)
       [] n = <<"X", "-", "W", "R", "-", "T", "I", "M", "E", "Z", "O", "N", "E">> -> Put(calendar, "timezone", v)
       [] n \in {<<"X", "-", "P", "U", "B", "L", "I", "S", "H", "E", "D", "-", "T", "T", "L">>, <<"R", "E", "F", "R", "E", "S", "H", "-", "I", "N", "T", "E", "R", "V", "A", "L">>} ->
            Put(calendar, "refreshInterval", v)
       [] OTHER -> PutCustom(calendar, prop)

\* console.warn of a sub-component failure happens only with debug
WarnIf(debugOn, out, message) == IF debugOn THEN Append(out, message) ELSE out

\* case "VEVENT": the event is pushed, or the ZodError is caught and, with
\* debug, printed
pushEvent(st, event, debugOn) ==
  IF event.ok
  THEN [st EXCEPT !.calendar = Push(@, "events", <<event.value>>)]
  ELSE [st EXCEPT !.console =
          WarnIf(debugOn, @, <<"warn", "Failed to parse event: ", event.value>>)]

\* the default branch, were it to skip the sub-component
skipUnparsed(st, subComponent) == st

\* default: the sub-component is kept, as its type and JSON.stringify of it
pushUnparsed(st, subComponent) ==
  [st EXCEPT !.calendar =
     Push(@, "unparsedComponents",
          <<[type |-> subComponent.type, rawData |-> JSONstringify(subComponent)]>>)]

\* one pass of the switch in parseCalendarBlock's loop over
\* block.subComponents; st holds the calendar under construction and the
\* console output so far
parseCalendarSubComponent(st, subComponent, debugOn) ==
  LET t == subComponent.type
      c == st.calendar
  IN CASE t = <<"V", "E", "V", "E", "N", "T">> -> pushEvent(st, parseEventBlock(subComponent), debugOn)
       [] t = <<"V", "T", "O", "D", "O">> ->
            [st EXCEPT !.calendar = Push(c, "todos", <<parseTodoBlock(subComponent)>>)]
       [] t = <<"V", "J", "O", "U", "R", "N", "A", "L">> ->
            [st EXCEPT !.calendar = Push(c, "journals", <<parseJournalBlock(subComponent)>>)]
       [] t = <<"V", "F", "R", "E", "E", "B", "U", "S", "Y">> ->
            [st EXCEPT !.calendar = Push(c, "freebusys", <<parseFreebusyBlock(subComponent)>>)]
       [] t = <<"V", "T", "I", "M", "E", "Z", "O", "N", "E">> ->
            [st EXCEPT !.calendar = Push(c, "timezones", <<parseTimezoneBlock(subComponent)>>)]
       [] OTHER -> pushUnparsed(st, subComponent)

RECURSIVE ForEachSubComponent(_, _, _)
ForEachSubComponent(st, subComponents, debugOn) ==
  IF Evaluated(st) /\ Len(subComponents) = 0 THEN st
  ELSE ForEachSubComponent(parseCalendarSubComponent(st, subComponents[1], debugOn),
                           Tail(subComponents), debugOn)

\* the candidate calendar handed to icsCalendarSchema.parse, with the
\* console output of the sub-component loop
parseCalendarCandidate(block, debugOn) ==
  ForEachSubComponent(
    [calendar |-> ForEachProperty(parseCalendarProperty,
                                  [events |-> <<>>, todos |-> <<>>, journals |-> <<>>,
                                   freebusys |-> <<>>, timezones |-> <<>>,
                                   unparsedComponents |-> <<>>,
                                   customProperties |-> EmptyObject],
                                  block.properties),
     console |-> <<>>],
    block.subComponents, debugOn)

\* icsCalendarSchema.parse(calendar): ok = FALSE stands for the ZodError it
\* throws; the console output of the sub-component loop is carried along
icsCalendarSchemaParse(st) ==
  IF icsCalendarSchema(st.calendar)
  THEN [ok |-> TRUE, value |-> st.calendar, console |-> st.console]
  ELSE [ok |-> FALSE, value |-> "ZodError", console |-> st.console]

parseCalendarBlock(block, debugOn) ==
  icsCalendarSchemaParse(parseCalendarCandidate(block, debugOn))

(***************************************************************************)
(* src/parseIcsData.ts: parseIntoBlocks                                    *)
(*                                                                         *)
(* The blocks are objects of the heap that `blocks`, `stack` and the       *)
(* subComponents arrays refer to.  nodes[id] is the object with identity   *)
(* id; blocks, stack and subComponents hold identities.                    *)
(***************************************************************************)

\* the ComponentBlock value (with its sub-components, recursively) of node id
RECURSIVE ComponentBlock(_, _)
ComponentBlock(nodeSeq, id) ==
  [type |-> nodeSeq[id].type,
   properties |-> nodeSeq[id].properties,
   subComponents |-> [k \in 1..Len(nodeSeq[id].subComponents) |->
                        ComponentBlock(nodeSeq, nodeSeq[id].subComponents[k])]]

\* the array parseIntoBlocks returns
RootBlocks(b) == [k \in 1..Len(b.blocks) |-> ComponentBlock(b.nodes, b.blocks[k])]

EmptyBuilder == [nodes |-> <<>>, blocks |-> <<>>, stack |-> <<>>]

\* identity of stack[stack.length - 1]
getLastOnStack(b) == b.stack[Len(b.stack)]

\* the branches, were END to look for its type anywhere in the stack
lineKindAnyOpen(b, line) ==
  IF startsWith(line, <<"B", "E", "G", "I", "N", ":">>) THEN "begin"
  ELSE IF startsWith(line, <<"E", "N", "D", ":">>)
       THEN IF Len(b.stack) = 0 THEN "unexpectedEnd"
            ELSE IF \A k \in 1..Len(b.stack) :
                      b.nodes[b.stack[k]].type # substringFrom(line, 4)
                 THEN "mismatchedEnd"
                 ELSE "end"
  ELSE IF Len(b.stack) = 0 THEN "propertyOutside"
  ELSE IF parsePropertyLineThrows(line) THEN "invalidProperty"
  ELSE "property"

\* the branch taken for a trimmed line, or the error it throws
lineKind(b, line) ==
  IF startsWith(line, <<"B", "E", "G", "I", "N", ":">>) THEN "begin"
  ELSE IF startsWith(line, <<"E", "N", "D", ":">>)
       THEN IF Len(b.stack) = 0 THEN "unexpectedEnd"
            ELSE IF b.nodes[getLastOnStack(b)].type # substringFrom(line, 4)
                 THEN "mismatchedEnd"
                 ELSE "end"
  ELSE IF Len(b.stack) = 0 THEN "propertyOutside"
  ELSE IF parsePropertyLineThrows(line) THEN "invalidProperty"
  ELSE "property"

LineErrors == {"unexpectedEnd", "mismatchedEnd", "propertyOutside", "invalidProperty"}

\* the message of the Error of kind `kind` thrown for line i (1-based, the
\* source's i + 1)
lineErrorMessage(kind, b, line, i) ==
  CASE kind = "unexpectedEnd" ->
         <<"Unexpected END:", substringFrom(line, 4), " at line ", i>>
    [] kind = "mismatchedEnd" ->
         <<"Mismatched component: expected END:", b.nodes[getLastOnStack(b)].type,
           ", got END:", substringFrom(line, 4), " at line ", i>>
    [] kind = "propertyOutside" ->
         <<"Property outside of component at line ", i, ": ", line>>
    [] kind = "invalidProperty" ->
         <<"Invalid property line: ", line>>

\* BEGIN:<type>, were the new block made a sub-component of the bottom of
\* the stack
beginBlockUnderBottom(b, componentType) ==
  LET id == Len(b.nodes) + 1
      newBlock == [type |-> componentType, properties |-> <<>>, subComponents |-> <<>>]
      linked == IF Len(b.stack) = 0 THEN b.nodes
                ELSE [b.nodes EXCEPT ![b.stack[1]].subComponents = Append(@, id)]
  IN [nodes |-> Append(linked, newBlock),
      blocks |-> IF Len(b.stack) = 0 THEN Append(b.blocks, id) ELSE b.blocks,
      stack |-> Append(b.stack, id)]

\* BEGIN:<type>: a new block, a root when the stack is empty and otherwise
\* a sub-component of the top of the stack, is pushed on the stack
beginBlock(b, componentType) ==
  LET id == Len(b.nodes) + 1
      newBlock == [type |-> componentType, properties |-> <<>>, subComponents |-> <<>>]
      linked == IF Len(b.stack) = 0 THEN b.nodes
                ELSE [b.nodes EXCEPT ![getLastOnStack(b)].subComponents = Append(@, id)]
  IN [nodes |-> Append(linked, newBlock),
      blocks |-> IF Len(b.stack) = 0 THEN Append(b.blocks, id) ELSE b.blocks,
      stack |-> Append(b.stack, id)]

\* END:<type> matching the top of the stack: stack.pop()
endBlock(b) == [b EXCEPT !.stack = SubSeq(@, 1, Len(@) - 1)]

\* a property line, were it pushed on the properties of the bottom of the
\* stack
addPropertyToBottom(b, property) ==
  [b EXCEPT !.nodes[b.stack[1]].properties = Append(@, property)]

\* a property line: pushed on the properties of the top of the stack
addProperty(b, property) ==
  [b EXCEPT !.nodes[getLastOnStack(b)].properties = Append(@, property)]

\* the try block of the loop body for a trimmed line that takes branch
\* `kind`: the builder after it (unchanged when the branch throws)
builderBranch(kind, b, line) ==
  CASE kind = "begin" -> beginBlock(b, substringFrom(line, 6))
    [] kind = "end" -> endBlock(b)
    [] kind = "property" -> addProperty(b, parsePropertyLine(line))
    [] OTHER -> b

\* the body of the for loop for one line
builderLine(b, rawLine) == builderBranch(lineKind(b, trim(rawLine)), b, trim(rawLine))

\* the console.warn of the loop's catch clause, which runs only with debug
catchLineError(kind, b, line, i, debugOn, out) ==
  IF kind \in LineErrors
  THEN WarnIf(debugOn, out, <<"warn", "Warning at line ", i, ": ",
                              lineErrorMessage(kind, b, line, i)>>)
  ELSE out

builderLineConsole(b, rawLine, i, debugOn, out) ==
  catchLineError(lineKind(b, trim(rawLine)), b, trim(rawLine), i, debugOn, out)

\* the for loop from line i on; st holds the builder and the console output
RECURSIVE builderLoop(_, _, _, _)
builderLoop(st, lineSeq, i, debugOn) ==
  IF Evaluated(st) /\ i > Len(lineSeq) THEN st
  ELSE builderLoop([builder |-> builderLine(st.builder, lineSeq[i]),
                    console |-> builderLineConsole(st.builder, lineSeq[i], i, debugOn,
                                                   st.console)],
                   lineSeq, i + 1, debugOn)

\* the check after the loop, were it to compare with 1
moreThanOneUnclosed(b) == Len(b.stack) > 1

\* the check after the loop: stack.length > 0 throws
unclosedComponents(b) == Len(b.stack) > 0

unclosedMessage(b) ==
  <<"Unclosed components: ",
    join([k \in 1..Len(b.stack) |-> b.nodes[b.stack[k]].type], <<",", SP>>)>>

\* parseIntoBlocks(lines, debug): ok = FALSE stands for the Error thrown
\* for unclosed components
builderReturn(st) ==
  IF unclosedComponents(st.builder)
  THEN [ok |-> FALSE, value |-> unclosedMessage(st.builder), console |-> st.console]
  ELSE [ok |-> TRUE, value |-> RootBlocks(st.builder), console |-> st.console]

parseIntoBlocks(lineSeq, debugOn) ==
  builderReturn(builderLoop([builder |-> EmptyBuilder, console |-> <<>>], lineSeq, 1,
                            debugOn))

(***************************************************************************)
(* src/parseIcsData.ts: parseIcsData                                       *)
(***************************************************************************)

\* console.log under `if (debug)`
LogIf(debugOn, out, entries) == IF debugOn THEN out \o entries ELSE out

\* Step 3, one pass of the loop over rootBlocks; acc holds calendars,
\* errors, warnings and the console output
\* Step 3's try and catch, were debug to report a failed calendar among the
\* warnings as well
pushCalendarDebugWarns(acc, calendar, debugOn) ==
  IF calendar.ok
  THEN [acc EXCEPT !.calendars = Append(@, calendar.value),
                   !.console = @ \o calendar.console]
  ELSE [acc EXCEPT !.errors = Append(@, <<"Failed to parse calendar: ", calendar.value>>),
                   !.warnings = WarnIf(debugOn, @, <<"Failed to parse calendar: ",
                                                     calendar.value>>),
                   !.console = WarnIf(debugOn, @ \o calendar.console,
                                      <<"error", "Failed to parse calendar: ",
                                        calendar.value>>)]

\* Step 3's try and catch around parseCalendarBlock
pushCalendar(acc, calendar, debugOn) ==
  IF calendar.ok
  THEN [acc EXCEPT !.calendars = Append(@, calendar.value),
                   !.console = @ \o calendar.console]
  ELSE [acc EXCEPT !.errors = Append(@, <<"Failed to parse calendar: ", calendar.value>>),
                   !.console = WarnIf(debugOn, @ \o calendar.console,
                                      <<"error", "Failed to parse calendar: ",
                                        calendar.value>>)]

\* one pass of Step 3's loop, were the type compared without regard to case
processRootBlockAnyCase(acc, block, debugOn) ==
  IF toUpperCase(block.type) = <<"V", "C", "A", "L", "E", "N", "D", "A", "R">>
  THEN pushCalendar(acc, parseCalendarBlock(block, debugOn), debugOn)
  ELSE [acc EXCEPT !.warnings = Append(@, <<"Unexpected root component: ", block.type>>)]

processRootBlock(acc, block, debugOn) ==
  IF block.type = <<"V", "C", "A", "L", "E", "N", "D", "A", "R">>
  THEN pushCalendar(acc, parseCalendarBlock(block, debugOn), debugOn)
  ELSE [acc EXCEPT !.warnings = Append(@, <<"Unexpected root component: ", block.type>>)]

RECURSIVE processRootBlocks(_, _, _)
processRootBlocks(acc, rootBlocks, debugOn) ==
  IF Evaluated(acc) /\ Len(rootBlocks) = 0 THEN acc
  ELSE processRootBlocks(processRootBlock(acc, rootBlocks[1], debugOn),
                         Tail(rootBlocks), debugOn)

\* the reduce of Step 4, were every total taken over cal.events
RECURSIVE reduceLengthOfEvents(_, _)
reduceLengthOfEvents(calendarSeq, k) ==
  IF Len(calendarSeq) = 0 THEN 0
  ELSE Len(calendarSeq[1].events) + reduceLengthOfEvents(Tail(calendarSeq), k)

\* calendars.reduce((sum, cal) => sum + cal[k].length, 0)
RECURSIVE reduceLength(_, _)
reduceLength(calendarSeq, k) ==
  IF Len(calendarSeq) = 0 THEN 0
  ELSE Len(calendarSeq[1][k]) + reduceLength(Tail(calendarSeq), k)

\* Step 4 and the return of the try block
parseResult(calendarSeq, errorSeq, warningSeq) ==
  [calendars |-> calendarSeq,
   metadata |-> [totalEvents |-> reduceLength(calendarSeq, "events"),
                 totalTodos |-> reduceLength(calendarSeq, "todos"),
                 totalJournals |-> reduceLength(calendarSeq, "journals"),
                 totalFreebusys |-> reduceLength(calendarSeq, "freebusys"),
                 totalTimezones |-> reduceLength(calendarSeq, "timezones"),
                 parseErrors |-> errorSeq,
                 parseWarnings |-> warningSeq]]

\* the return of the outer catch clause
criticalResult(errorSeq, warningSeq, message) ==
  [calendars |-> <<>>,
   metadata |-> [totalEvents |-> 0,
                 totalTodos |-> 0,
                 totalJournals |-> 0,
                 totalFreebusys |-> 0,
                 totalTimezones |-> 0,
                 parseErrors |-> Append(errorSeq, <<"Critical parsing error: ", message>>),
                 parseWarnings |-> warningSeq]]

\* the debug output before the block builder runs
consoleInput(lineSeq) ==
  <<<<"log", "Raw ICS data:">>, <<"log", "Unfolded lines:", Len(lineSeq)>>>>

\* the debug output between the block builder and Step 3
consoleBlocks(rootBlocks) == <<<<"log", "Parsed component blocks:", Len(rootBlocks)>>>>

\* the debug output after Step 4: the result and, per calendar, its events
consoleResult(calendarSeq) ==
  <<<<"log", "Final parsed result:">>, <<"log", "Human-readable events:">>>>
    \o [k \in 1..Len(calendarSeq) |->
          <<"log", "Calendar ", k, "Events ", Len(calendarSeq[k].events)>>]

returnResult(acc, debugOn) ==
  [status |-> "resolved",
   value |-> parseResult(acc.calendars, acc.errors, acc.warnings),
   console |-> LogIf(debugOn, acc.console, consoleResult(acc.calendars))]

\* Steps 3 and 4 for the blocks parseIntoBlocks returned, or the outer catch
\* clause for the Error it threw; `before` is the console output so far
afterBlocks(built, before, debugOn) ==
  IF built.ok
  THEN returnResult(processRootBlocks([calendars |-> <<>>, errors |-> <<>>,
                                       warnings |-> <<>>,
                                       console |-> LogIf(debugOn, before,
                                                         consoleBlocks(built.value))],
                                      built.value, debugOn),
                    debugOn)
  ELSE [status |-> "resolved",
        value |-> criticalResult(<<>>, <<>>, built.value),
        console |-> before]

afterUnfold(lineSeq, built, debugOn) ==
  afterBlocks(built, LogIf(debugOn, <<>>, consoleInput(lineSeq)) \o built.console, debugOn)

withLines(lineSeq, debugOn) == afterUnfold(lineSeq, parseIntoBlocks(lineSeq, debugOn), debugOn)

\* the promise parseIcsData(data, debug) returns, and what it printed
parseIcsData(text, debugOn) == withLines(unfoldLines(text), debugOn)

(***************************************************************************)
(* Inputs: the texts handed to parseIcsData                                *)
(***************************************************************************)

\* fragments of ICS text, with CRLF and with bare LF line endings
CalHead == <<"B", "E", "G", "I", "N", ":", "V", "C", "A", "L", "E", "N", "D", "A", "R", CR, LF, "V", "E", "R", "S", "I", "O", "N", ":", "2", ".", "0", CR, LF, "P", "R", "O", "D", "I", "D", ":", "p", CR, LF>>
CalEnd == <<"E", "N", "D", ":", "V", "C", "A", "L", "E", "N", "D", "A", "R", CR, LF>>
EvOk == <<"B", "E", "G", "I", "N", ":", "V", "E", "V", "E", "N", "T", LF, "U", "I", "D", ":", "a", LF, "D", "T", "S", "T", "A", "M", "P", ":", "2", "0", "2", "3", "1", "2", "0", "1", "T", "1", "2", "0", "0", "0", "0", "Z", LF, "E", "N", "D", ":", "V", "E", "V", "E", "N", "T", LF>>
EvBoth == <<"B", "E", "G", "I", "N", ":", "V", "E", "V", "E", "N", "T", LF, "U", "I", "D", ":", "b", LF, "D", "T", "S", "T", "A", "M", "P", ":", "2", "0", "2", "3", "1", "2", "0", "1", "T", "1", "2", "0", "0", "0", "0", "Z", LF, "D", "T", "E", "N", "D", ":", "2", "0", "2", "3", "1", "2", "1", "5", LF, "D", "U", "R", "A", "T", "I", "O", "N", ":", "P", "T", "1", "H", LF, "E", "N", "D", ":", "V", "E", "V", "E", "N", "T", LF>>
EvEmptyDuration == <<"B", "E", "G", "I", "N", ":", "V", "E", "V", "E", "N", "T", LF, "U", "I", "D", ":", "e", LF, "D", "T", "S", "T", "A", "M", "P", ":", "2", "0", "2", "3", "1", "2", "0", "1", "T", "1", "2", "0", "0", "0", "0", "Z", LF, "D", "T", "E", "N", "D", ":", "2", "0", "2", "3", "1", "2", "1", "5", LF, "D", "U", "R", "A", "T", "I", "O", "N", ":", LF, "E", "N", "D", ":", "V", "E", "V", "E", "N", "T", LF>>
Alarm == <<"B", "E", "G", "I", "N", ":", "V", "A", "L", "A", "R", "M", LF, "A", "C", "T", "I", "O", "N", ":", "X", LF, "E", "N", "D", ":", "V", "A", "L", "A", "R", "M", LF>>
NoColon == <<"J", "U", "N", "K", LF>>
BeginEvent == <<"B", "E", "G", "I", "N", ":", "V", "E", "V", "E", "N", "T", LF>>
EndEvent == <<"E", "N", "D", ":", "V", "E", "V", "E", "N", "T", LF>>

Chunks == {CalHead, CalEnd, EvOk, EvBoth, Alarm, NoColon, BeginEvent, EndEvent}

\* the longest generated text, in fragments
MaxChunks == 3

GeneratedDocs == {flatten(cs) : cs \in UNION {[1..k -> Chunks] : k \in 0..MaxChunks}}

\* the README's "Basic Usage" text with the UID of the spec's scenario
DocTeamMeeting ==
  <<LF, "B", "E", "G", "I", "N", ":", "V", "C", "A", "L", "E", "N", "D", "A", "R", LF, "V", "E", "R", "S", "I", "O", "N", ":", "2", ".", "0", LF, "P", "R", "O", "D", "I", "D", ":", "-", "/", "/", "E", "x", "a", "m", "p", "l", "e", "/", "/", "E", "N", LF, "B", "E", "G", "I", "N", ":", "V", "E", "V", "E", "N", "T", LF, "U", "I", "D", ":", "a", "@", "b", LF, "D", "T", "S", "T", "A", "M", "P", ":", "2", "0", "2", "3", "1", "2", "0", "1", "T", "1", "2", "0", "0", "0", "0", "Z", LF, "D", "T", "S", "T", "A", "R", "T", ":", "2", "0", "2", "3", "1", "2", "1", "5", "T", "1", "4", "0", "0", "0", "0", "Z", LF, "D", "T", "E", "N", "D", ":", "2", "0", "2", "3", "1", "2", "1", "5", "T", "1", "5", "0", "0", "0", "0", "Z", LF, "S", "U", "M", "M", "A", "R", "Y", ":", "T", "e", "a", "m", " ", "M", "e", "e", "t", "i", "n", "g", LF, "E", "N", "D", ":", "V", "E", "V", "E", "N", "T", LF, "E", "N", "D", ":", "V", "C", "A", "L", "E", "N", "D", "A", "R">>

CategoriesLine == <<"C", "A", "T", "E", "G", "O", "R", "I", "E", "S", ":", "W", "o", "r", "k", BS, ",", "F", "u", "n", ",", "T", "r", "a", "v", "e", "l">>

DocCategories ==
  CalHead \o <<"B", "E", "G", "I", "N", ":", "V", "E", "V", "E", "N", "T", CR, LF, "U", "I", "D", ":", "c", CR, LF, "D", "T", "S", "T", "A", "M", "P", ":", "2", "0", "2", "3", "1", "2", "0", "1", "T", "1", "2", "0", "0", "0", "0", "Z", CR, LF>>
    \o CategoriesLine \o <<CR, LF, "E", "N", "D", ":", "V", "E", "V", "E", "N", "T", CR, LF>> \o CalEnd

\* one calendar with a component of every kind, and a second calendar
DocAllKinds ==
  CalHead \o EvOk \o EvBoth \o Alarm
    \o <<"B", "E", "G", "I", "N", ":", "V", "T", "O", "D", "O", LF, "U", "I", "D", ":", "t", LF, "D", "T", "S", "T", "A", "M", "P", ":", "2", "0", "2", "3", "1", "2", "0", "1", "T", "1", "2", "0", "0", "0", "0", "Z", LF, "P", "R", "I", "O", "R", "I", "T", "Y", ":", "5", LF, "E", "N", "D", ":", "V", "T", "O", "D", "O", LF>>
    \o <<"B", "E", "G", "I", "N", ":", "V", "J", "O", "U", "R", "N", "A", "L", LF, "U", "I", "D", ":", "j", LF, "D", "T", "S", "T", "A", "M", "P", ":", "2", "0", "2", "3", "1", "2", "0", "1", "T", "1", "2", "0", "0", "0", "0", "Z", LF, "E", "N", "D", ":", "V", "J", "O", "U", "R", "N", "A", "L", LF>>
    \o <<"B", "E", "G", "I", "N", ":", "V", "F", "R", "E", "E", "B", "U", "S", "Y", LF, "U", "I", "D", ":", "f", LF, "D", "T", "S", "T", "A", "M", "P", ":", "2", "0", "2", "3", "1", "2", "0", "1", "T", "1", "2", "0", "0", "0", "0", "Z", LF, "F", "R", "E", "E", "B", "U", "S", "Y", ":", "x", LF, "E", "N", "D", ":", "V", "F", "R", "E", "E", "B", "U", "S", "Y", LF>>
    \o <<"B", "E", "G", "I", "N", ":", "V", "T", "I", "M", "E", "Z", "O", "N", "E", LF, "T", "Z", "I", "D", ":", "Z", LF, "B", "E", "G", "I", "N", ":", "S", "T", "A", "N", "D", "A", "R", "D", LF, "T", "Z", "N", "A", "M", "E", ":", "S", LF, "E", "N", "D", ":", "S", "T", "A", "N", "D", "A", "R", "D", LF, "E", "N", "D", ":", "V", "T", "I", "M", "E", "Z", "O", "N", "E", LF>>
    \o <<"B", "E", "G", "I", "N", ":", "v", "a", "l", "a", "r", "m", LF, "E", "N", "D", ":", "v", "a", "l", "a", "r", "m", LF>> \o EvOk \o CalEnd
    \o CalHead \o EvOk \o CalEnd

\* folded lines, a lower-case name, parameters and a person property
DocFolded ==
  CalHead \o <<"X", "-", "W", "R", "-", "C", "A", "L", "N", "A", "M", "E", ":", "M", "y", CR, LF, " ", " ", "C", "a", "l", CR, LF, "X", "-", "A", ":", "1", CR, LF>>
    \o <<"B", "E", "G", "I", "N", ":", "V", "E", "V", "E", "N", "T", LF, "u", "i", "d", ":", "d", LF, "D", "T", "S", "T", "A", "M", "P", ":", "2", "0", "2", "3", "1", "2", "0", "1", LF, TAB, "T", "1", "2", "0", "0", "0", "0", LF, "s", "u", "m", "m", "a", "r", "y", ";", "L", "A", "N", "G", "U", "A", "G", "E", "=", "e", "n", ":", "H", "i", BS, "n", "t", "h", "e", "r", "e", LF>>
    \o <<"O", "R", "G", "A", "N", "I", "Z", "E", "R", ";", "C", "N", "=", DQ, "A", "l", DQ, ";", "x", "=", "1", ":", "m", "a", "i", "l", "t", "o", ":", "a", "l", "@", "e", "x", ".", "o", "r", "g", LF, "P", "R", "I", "O", "R", "I", "T", "Y", ":", "3", LF, "E", "N", "D", ":", "V", "E", "V", "E", "N", "T", LF>> \o CalEnd

\* a calendar without PRODID between two valid calendars, a root VEVENT and a
\* line outside of any component
DocBadCalendar ==
  CalHead \o EvOk \o CalEnd
    \o <<"B", "E", "G", "I", "N", ":", "V", "C", "A", "L", "E", "N", "D", "A", "R", LF, "V", "E", "R", "S", "I", "O", "N", ":", "2", ".", "0", LF>> \o EvOk \o CalEnd
    \o EvOk \o CalHead \o EvOk \o EvBoth \o EvEmptyDuration \o EvOk \o CalEnd \o NoColon

\* a valid calendar followed by a calendar whose VEVENT is never closed
DocUnclosedEvent == CalHead \o EvOk \o CalEnd \o CalHead \o <<"B", "E", "G", "I", "N", ":", "V", "E", "V", "E", "N", "T", LF, "U", "I", "D", ":", "u", LF>> \o CalEnd

TodoOk == <<"B", "E", "G", "I", "N", ":", "V", "T", "O", "D", "O", LF, "U", "I", "D", ":", "t", LF, "D", "T", "S", "T", "A", "M", "P", ":", "2", "0", "2", "3", "1", "2", "0", "1", "T", "1", "2", "0", "0", "0", "0", "Z", LF, "P", "E", "R", "C", "E", "N", "T", "-", "C", "O", "M", "P", "L", "E", "T", "E", ":", "5", "0", LF, "E", "N", "D", ":", "V", "T", "O", "D", "O", LF>>

\* a calendar with a valid event, a VTODO without UID and a valid VTODO
DocTodoWithoutUid ==
  CalHead \o EvOk \o <<"B", "E", "G", "I", "N", ":", "V", "T", "O", "D", "O", LF, "D", "T", "S", "T", "A", "M", "P", ":", "2", "0", "2", "3", "1", "2", "0", "1", "T", "1", "2", "0", "0", "0", "0", "Z", LF, "E", "N", "D", ":", "V", "T", "O", "D", "O", LF>> \o TodoOk
    \o CalEnd

\* calendars with a VTODO whose PERCENT-COMPLETE is 150, a VJOURNAL without
\* DTSTAMP and a VFREEBUSY without UID, each next to valid components
DocInvalidComponents ==
  CalHead \o EvOk
    \o <<"B", "E", "G", "I", "N", ":", "V", "T", "O", "D", "O", LF, "U", "I", "D", ":", "t", LF, "D", "T", "S", "T", "A", "M", "P", ":", "2", "0", "2", "3", "1", "2", "0", "1", "T", "1", "2", "0", "0", "0", "0", "Z", LF, "P", "E", "R", "C", "E", "N", "T", "-", "C", "O", "M", "P", "L", "E", "T", "E", ":", "1", "5", "0", LF, "E", "N", "D", ":", "V", "T", "O", "D", "O", LF>>
    \o TodoOk \o CalEnd
    \o CalHead \o <<"B", "E", "G", "I", "N", ":", "V", "J", "O", "U", "R", "N", "A", "L", LF, "U", "I", "D", ":", "j", LF, "E", "N", "D", ":", "V", "J", "O", "U", "R", "N", "A", "L", LF>> \o EvOk \o CalEnd
    \o CalHead \o <<"B", "E", "G", "I", "N", ":", "V", "F", "R", "E", "E", "B", "U", "S", "Y", LF, "D", "T", "S", "T", "A", "M", "P", ":", "2", "0", "2", "3", "1", "2", "0", "1", "T", "1", "2", "0", "0", "0", "0", "Z", LF, "E", "N", "D", ":", "V", "F", "R", "E", "E", "B", "U", "S", "Y", LF>> \o CalEnd

\* a calendar that ends after its properties and one VEVENT
CalWith(properties) == <<"B", "E", "G", "I", "N", ":", "V", "C", "A", "L", "E", "N", "D", "A", "R", LF>> \o properties \o EvOk \o CalEnd

\* valid calendars before, between and after calendars whose record fails:
\* VERSION 1.0, an empty PRODID, a CALSCALE and a METHOD out of their enums,
\* a missing VERSION and a missing PRODID
DocBadHeaders ==
  CalWith(<<"V", "E", "R", "S", "I", "O", "N", ":", "2", ".", "0", LF, "P", "R", "O", "D", "I", "D", ":", "p", LF, "C", "A", "L", "S", "C", "A", "L", "E", ":", "G", "R", "E", "G", "O", "R", "I", "A", "N", LF, "M", "E", "T", "H", "O", "D", ":", "P", "U", "B", "L", "I", "S", "H", LF>>)
    \o CalWith(<<"V", "E", "R", "S", "I", "O", "N", ":", "1", ".", "0", LF, "P", "R", "O", "D", "I", "D", ":", "p", LF>>)
    \o CalWith(<<"V", "E", "R", "S", "I", "O", "N", ":", "2", ".", "0", LF, "P", "R", "O", "D", "I", "D", ":", LF>>)
    \o CalWith(<<"V", "E", "R", "S", "I", "O", "N", ":", "2", ".", "0", LF, "P", "R", "O", "D", "I", "D", ":", "p", LF>>)
    \o CalWith(<<"V", "E", "R", "S", "I", "O", "N", ":", "2", ".", "0", LF, "P", "R", "O", "D", "I", "D", ":", "p", LF, "C", "A", "L", "S", "C", "A", "L", "E", ":", "J", "U", "L", "I", "A", "N", LF>>)
    \o CalWith(<<"V", "E", "R", "S", "I", "O", "N", ":", "2", ".", "0", LF, "P", "R", "O", "D", "I", "D", ":", "p", LF, "M", "E", "T", "H", "O", "D", ":", "S", "E", "N", "D", LF>>)
    \o CalWith(<<"P", "R", "O", "D", "I", "D", ":", "p", LF>>)
    \o CalWith(<<"V", "E", "R", "S", "I", "O", "N", ":", "2", ".", "0", LF>>)
    \o CalWith(<<"V", "E", "R", "S", "I", "O", "N", ":", "1", ".", "0", LF, "V", "E", "R", "S", "I", "O", "N", ":", "2", ".", "0", LF, "P", "R", "O", "D", "I", "D", ":", "p", LF>>)

\* an END outside of any component between two calendars, and in the second
\* calendar a VALARM inside a VEVENT with an END:VEVENT before its own END
DocNested ==
  CalHead \o EvOk \o CalEnd \o EndEvent \o CalHead \o BeginEvent
    \o <<"U", "I", "D", ":", "n", LF, "D", "T", "S", "T", "A", "M", "P", ":", "2", "0", "2", "3", "1", "2", "0", "1", "T", "1", "2", "0", "0", "0", "0", "Z", LF, "B", "E", "G", "I", "N", ":", "V", "A", "L", "A", "R", "M", LF, "A", "C", "T", "I", "O", "N", ":", "X", LF, "E", "N", "D", ":", "V", "E", "V", "E", "N", "T", LF, "E", "N", "D", ":", "V", "A", "L", "A", "R", "M", LF>>
    \o EndEvent \o CalEnd

\* a VTIMEZONE with a property after its nested STANDARD block and a second
\* TZID, and a VTIMEZONE without TZID, before a VEVENT
DocTimezone ==
  CalHead
    \o <<"B", "E", "G", "I", "N", ":", "V", "T", "I", "M", "E", "Z", "O", "N", "E", LF, "T", "Z", "I", "D", ":", "E", "u", "r", "o", "p", "e", "/", "P", "a", "r", "i", "s", LF, "B", "E", "G", "I", "N", ":", "S", "T", "A", "N", "D", "A", "R", "D", LF, "T", "Z", "N", "A", "M", "E", ":", "C", "E", "T", LF, "E", "N", "D", ":", "S", "T", "A", "N", "D", "A", "R", "D", LF>>
    \o <<"X", "-", "L", "I", "C", "-", "L", "O", "C", "A", "T", "I", "O", "N", ":", "E", "u", "r", "o", "p", "e", "/", "P", "a", "r", "i", "s", LF, "B", "E", "G", "I", "N", ":", "D", "A", "Y", "L", "I", "G", "H", "T", LF, "T", "Z", "N", "A", "M", "E", ":", "C", "E", "S", "T", LF, "E", "N", "D", ":", "D", "A", "Y", "L", "I", "G", "H", "T", LF>>
    \o <<"E", "N", "D", ":", "V", "T", "I", "M", "E", "Z", "O", "N", "E", LF, "B", "E", "G", "I", "N", ":", "V", "T", "I", "M", "E", "Z", "O", "N", "E", LF, "L", "A", "S", "T", "-", "M", "O", "D", "I", "F", "I", "E", "D", ":", "2", "0", "2", "3", LF, "E", "N", "D", ":", "V", "T", "I", "M", "E", "Z", "O", "N", "E", LF>>
    \o EvOk \o CalEnd

\* root blocks of other types than VCALENDAR, one of them a lower-case
\* vcalendar, around a calendar that is returned and one that fails
DocRoots ==
  EvOk \o <<"B", "E", "G", "I", "N", ":", "v", "c", "a", "l", "e", "n", "d", "a", "r", LF, "V", "E", "R", "S", "I", "O", "N", ":", "2", ".", "0", LF, "P", "R", "O", "D", "I", "D", ":", "p", LF, "E", "N", "D", ":", "v", "c", "a", "l", "e", "n", "d", "a", "r", LF>>
    \o CalHead \o EvOk \o CalEnd \o <<"B", "E", "G", "I", "N", ":", "V", "T", "O", "D", "O", LF, "U", "I", "D", ":", "t", LF, "E", "N", "D", ":", "V", "T", "O", "D", "O", LF>>
    \o CalWith(<<"V", "E", "R", "S", "I", "O", "N", ":", "3", ".", "0", LF, "P", "R", "O", "D", "I", "D", ":", "p", LF>>) \o <<"B", "E", "G", "I", "N", ":", "X", LF, "E", "N", "D", ":", "X", LF>>

EventOf(uid) == <<"B", "E", "G", "I", "N", ":", "V", "E", "V", "E", "N", "T", LF, "U", "I", "D", ":">> \o uid \o <<LF, "D", "T", "S", "T", "A", "M", "P", ":", "2", "0", "2", "3", "1", "2", "0", "1", "T", "1", "2", "0", "0", "0", "0", "Z", LF, "E", "N", "D", ":", "V", "E", "V", "E", "N", "T", LF>>

ComponentOf(type, uid) ==
  <<"B", "E", "G", "I", "N", ":">> \o type \o <<LF, "U", "I", "D", ":">> \o uid \o <<LF, "D", "T", "S", "T", "A", "M", "P", ":", "2", "0", "2", "3", "1", "2", "0", "1", "T", "1", "2", "0", "0", "0", "0", "Z", LF, "E", "N", "D", ":">> \o type
    \o <<LF>>

\* two calendars between roots of other types; in the first, components of
\* every kind that differ in their UID, around a VEVENT that is dropped
DocOrder ==
  <<"B", "E", "G", "I", "N", ":", "Y", LF, "E", "N", "D", ":", "Y", LF>> \o CalHead \o EventOf(<<"1">>) \o ComponentOf(<<"V", "T", "O", "D", "O">>, <<"1">>)
    \o ComponentOf(<<"V", "A", "L", "A", "R", "M">>, <<"1">>) \o EvBoth \o ComponentOf(<<"V", "J", "O", "U", "R", "N", "A", "L">>, <<"1">>)
    \o ComponentOf(<<"V", "F", "R", "E", "E", "B", "U", "S", "Y">>, <<"1">>) \o EventOf(<<"2">>) \o ComponentOf(<<"V", "F", "R", "E", "E", "B", "U", "S", "Y">>, <<"2">>)
    \o ComponentOf(<<"V", "J", "O", "U", "R", "N", "A", "L">>, <<"2">>) \o ComponentOf(<<"V", "T", "O", "D", "O">>, <<"2">>)
    \o ComponentOf(<<"X", "-", "B">>, <<"2">>) \o CalEnd
    \o <<"B", "E", "G", "I", "N", ":", "X", LF, "E", "N", "D", ":", "X", LF>> \o CalHead \o EventOf(<<"3">>) \o CalEnd

EvHead == <<"B", "E", "G", "I", "N", ":", "V", "E", "V", "E", "N", "T", LF, "U", "I", "D", ":", "r", LF, "D", "T", "S", "T", "A", "M", "P", ":", "2", "0", "2", "3", "1", "2", "0", "1", "T", "1", "2", "0", "0", "0", "0", "Z", LF>>

\* an event whose CATEGORIES and RESOURCES values are blank, an event with
\* every repeatable property and a custom property, and a plain event
DocRepeatable ==
  CalHead \o EvHead \o <<"C", "A", "T", "E", "G", "O", "R", "I", "E", "S", ":", LF, "R", "E", "S", "O", "U", "R", "C", "E", "S", ":", " ", LF, "C", "A", "T", "E", "G", "O", "R", "I", "E", "S", ":", " ", LF>> \o EndEvent
    \o EvHead \o <<"A", "T", "T", "E", "N", "D", "E", "E", ";", "C", "N", "=", "A", "l", ":", "m", "a", "i", "l", "t", "o", ":", "a", "l", "@", "e", "x", ".", "o", "r", "g", LF, "C", "A", "T", "E", "G", "O", "R", "I", "E", "S", ":", "W", "o", "r", "k", LF, "C", "O", "M", "M", "E", "N", "T", ":", "c", LF, "C", "O", "M", "M", "E", "N", "T", ":", LF>>
    \o <<"C", "O", "N", "T", "A", "C", "T", ":", "x", LF, "A", "T", "T", "A", "C", "H", ":", "y", LF, "E", "X", "D", "A", "T", "E", ":", "2", "0", "2", "3", "1", "2", "0", "1", ",", "2", "0", "2", "3", "1", "2", "0", "2", LF, "R", "E", "L", "A", "T", "E", "D", ":", "z", LF, "R", "E", "S", "O", "U", "R", "C", "E", "S", ":", "a", ",", "b", LF>>
    \o <<"R", "D", "A", "T", "E", ":", "2", "0", "2", "3", "1", "2", "0", "3", LF, "X", "-", "K", ":", "1", LF, "C", "A", "T", "E", "G", "O", "R", "I", "E", "S", ":", LF>> \o EndEvent
    \o EvOk \o CalEnd

EventWith(line) == EvHead \o line \o <<LF>> \o EndEvent

\* a calendar with one VEVENT whose PRIORITY is 5abc
DocPriority5abc == CalHead \o EventWith(<<"P", "R", "I", "O", "R", "I", "T", "Y", ":", "5", "a", "b", "c">>) \o CalEnd

TodoWith(line) ==
  <<"B", "E", "G", "I", "N", ":", "V", "T", "O", "D", "O", LF, "U", "I", "D", ":", "t", LF, "D", "T", "S", "T", "A", "M", "P", ":", "2", "0", "2", "3", "1", "2", "0", "1", "T", "1", "2", "0", "0", "0", "0", "Z", LF>> \o line \o <<LF, "E", "N", "D", ":", "V", "T", "O", "D", "O", LF>>

\* a VTODO, and events whose PRIORITY or SEQUENCE is an integer in range, an integer out
\* of range, or no integer
DocNumbers ==
  CalHead \o EventWith(<<"P", "R", "I", "O", "R", "I", "T", "Y", ":", "5", LF, "S", "E", "Q", "U", "E", "N", "C", "E", ":", "0">>) \o EventWith(<<"P", "R", "I", "O", "R", "I", "T", "Y", ":", "a", "b", "c">>)
    \o EventWith(<<"P", "R", "I", "O", "R", "I", "T", "Y", ":">>) \o EventWith(<<"S", "E", "Q", "U", "E", "N", "C", "E", ":", "3", ".", "7">>) \o EventWith(<<"P", "R", "I", "O", "R", "I", "T", "Y", ":", "1", "0">>)
    \o EventWith(<<"S", "E", "Q", "U", "E", "N", "C", "E", ":", "-", "1">>) \o EventWith(<<"P", "R", "I", "O", "R", "I", "T", "Y", ":", "9", LF, "S", "E", "Q", "U", "E", "N", "C", "E", ":", "1", "2">>)
    \o EventWith(<<"P", "R", "I", "O", "R", "I", "T", "Y", ":", "-", "0">>)
    \o TodoWith(<<"P", "R", "I", "O", "R", "I", "T", "Y", ":", "0", LF, "P", "E", "R", "C", "E", "N", "T", "-", "C", "O", "M", "P", "L", "E", "T", "E", ":", "1", "0", "0">>) \o CalEnd

\* calendars with one VTODO each, whose PRIORITY and PERCENT-COMPLETE are
\* in range, out of range or no integer
DocTodoNumbers ==
  CalHead \o TodoWith(<<"P", "R", "I", "O", "R", "I", "T", "Y", ":", "0", LF, "P", "E", "R", "C", "E", "N", "T", "-", "C", "O", "M", "P", "L", "E", "T", "E", ":", "1", "0", "0">>) \o CalEnd
    \o CalHead \o TodoWith(<<"P", "R", "I", "O", "R", "I", "T", "Y", ":", "1", "0">>) \o CalEnd
    \o CalHead \o TodoWith(<<"P", "E", "R", "C", "E", "N", "T", "-", "C", "O", "M", "P", "L", "E", "T", "E", ":", "1", "0", "1">>) \o CalEnd
    \o CalHead \o TodoWith(<<"P", "E", "R", "C", "E", "N", "T", "-", "C", "O", "M", "P", "L", "E", "T", "E", ":", "-", "1">>) \o CalEnd
    \o CalHead \o TodoWith(<<"P", "R", "I", "O", "R", "I", "T", "Y", ":", "x">>) \o CalEnd
    \o CalHead \o TodoWith(<<"P", "R", "I", "O", "R", "I", "T", "Y", ":", "9", LF, "P", "E", "R", "C", "E", "N", "T", "-", "C", "O", "M", "P", "L", "E", "T", "E", ":", "0">>) \o CalEnd

\* events without UID, with an empty UID, without DTSTAMP, with a date-only
\* DTSTAMP and with a STATUS, CLASS or TRANSP outside of its enumeration,
\* between events whose values are all accepted
DocEventFields ==
  CalHead
    \o <<"B", "E", "G", "I", "N", ":", "V", "E", "V", "E", "N", "T", LF, "U", "I", "D", ":", "v", LF, "D", "T", "S", "T", "A", "M", "P", ":", "2", "0", "2", "3", "1", "2", "0", "1", "T", "1", "2", "0", "0", "0", "0", LF, "S", "T", "A", "T", "U", "S", ":", "C", "O", "N", "F", "I", "R", "M", "E", "D", LF, "C", "L", "A", "S", "S", ":", "P", "U", "B", "L", "I", "C", LF>>
    \o <<"T", "R", "A", "N", "S", "P", ":", "O", "P", "A", "Q", "U", "E", LF, "E", "N", "D", ":", "V", "E", "V", "E", "N", "T", LF>>
    \o <<"B", "E", "G", "I", "N", ":", "V", "E", "V", "E", "N", "T", LF, "D", "T", "S", "T", "A", "M", "P", ":", "2", "0", "2", "3", "1", "2", "0", "1", "T", "1", "2", "0", "0", "0", "0", "Z", LF, "E", "N", "D", ":", "V", "E", "V", "E", "N", "T", LF>>
    \o <<"B", "E", "G", "I", "N", ":", "V", "E", "V", "E", "N", "T", LF, "U", "I", "D", ":", LF, "D", "T", "S", "T", "A", "M", "P", ":", "2", "0", "2", "3", "1", "2", "0", "1", "T", "1", "2", "0", "0", "0", "0", "Z", LF, "E", "N", "D", ":", "V", "E", "V", "E", "N", "T", LF>>
    \o <<"B", "E", "G", "I", "N", ":", "V", "E", "V", "E", "N", "T", LF, "U", "I", "D", ":", "w", LF, "E", "N", "D", ":", "V", "E", "V", "E", "N", "T", LF>>
    \o <<"B", "E", "G", "I", "N", ":", "V", "E", "V", "E", "N", "T", LF, "U", "I", "D", ":", "w", LF, "D", "T", "S", "T", "A", "M", "P", ":", "2", "0", "2", "3", "1", "2", "0", "1", LF, "E", "N", "D", ":", "V", "E", "V", "E", "N", "T", LF>>
    \o EventWith(<<"S", "T", "A", "T", "U", "S", ":", "D", "O", "N", "E">>) \o EventWith(<<"C", "L", "A", "S", "S", ":", "S", "E", "C", "R", "E", "T">>) \o EventWith(<<"T", "R", "A", "N", "S", "P", ":", "N", "O", "N", "E">>)
    \o EventWith(<<"S", "T", "A", "T", "U", "S", ":", "c", "o", "n", "f", "i", "r", "m", "e", "d">>)
    \o EventWith(<<"S", "T", "A", "T", "U", "S", ":", "T", "E", "N", "T", "A", "T", "I", "V", "E", LF, "C", "L", "A", "S", "S", ":", "P", "R", "I", "V", "A", "T", "E", LF, "T", "R", "A", "N", "S", "P", ":", "T", "R", "A", "N", "S", "P", "A", "R", "E", "N", "T">>) \o CalEnd

\* a calendar with custom properties, one of them three times and one in
\* lower case, with the recognized X- names and with unrecognized names
DocCustom ==
  <<"B", "E", "G", "I", "N", ":", "V", "C", "A", "L", "E", "N", "D", "A", "R", LF, "V", "E", "R", "S", "I", "O", "N", ":", "2", ".", "0", LF, "X", "-", "A", ":", "1", LF, "P", "R", "O", "D", "I", "D", ":", "p", LF, "x", "-", "b", ":", "2", LF, "X", "-", "A", ":", "3", LF, "X", "-", "W", "R", "-", "C", "A", "L", "N", "A", "M", "E", ":", "n", LF>>
    \o <<"X", "-", "W", "R", "-", "C", "A", "L", "D", "E", "S", "C", ":", "d", LF, "X", "-", "W", "R", "-", "T", "I", "M", "E", "Z", "O", "N", "E", ":", "z", LF, "X", "-", "P", "U", "B", "L", "I", "S", "H", "E", "D", "-", "T", "T", "L", ":", "P", "T", "1", "H", LF, "F", "O", "O", ":", "4", LF, "X", "A", ":", "5", LF, "X", "-", ":", "6", LF>>
    \o <<"X", "-", "A", ":", "7", LF, "R", "E", "F", "R", "E", "S", "H", "-", "I", "N", "T", "E", "R", "V", "A", "L", ":", "P", "T", "2", "H", LF, "X", "-", "W", "R", "-", "R", "E", "L", "C", "A", "L", "I", "D", ":", "8", LF>> \o EvOk \o CalEnd

ScenarioDocs == {DocCustom, DocEventFields, DocTeamMeeting, DocCategories, DocAllKinds, DocFolded, DocBadCalendar,
                 DocUnclosedEvent, DocTodoWithoutUid, DocInvalidComponents, DocBadHeaders,
                 DocNested, DocTimezone, DocRoots, DocOrder, DocRepeatable,
                 DocPriority5abc, DocNumbers, DocTodoNumbers}

Inputs == GeneratedDocs \cup ScenarioDocs

(***************************************************************************)
(* One call of parseIcsData(data, debug), step by step                     *)
(***************************************************************************)
VARIABLES
  args,        \* the arguments of a call of one function of utils/icsUtils.ts
               \* alone (no such call in a run of parseIcsData)
  calls,       \* the parseIcsData calls in progress side by side (none in a
               \* run of one call)
  data,        \* the argument `data`
  debug,       \* the argument `debug`
  pc,          \* position in parseIcsData: "start", "build", "calendars",
               \* "catch", "done" (returned) or "rejected" (threw)
  lines,       \* parseIcsData's `lines`
  i,           \* parseIntoBlocks' loop index, 1-based
  nodes,       \* the ComponentBlock objects created so far
  blocks,      \* parseIntoBlocks' `blocks`
  stack,       \* parseIntoBlocks' `stack`
  caught,      \* the errors caught by the catch clause of parseIntoBlocks' loop
  rootBlocks,  \* parseIcsData's `rootBlocks`
  r,           \* position of Step 3's loop in rootBlocks
  calendars,   \* parseIcsData's `calendars`
  source,      \* source[k]: the position in rootBlocks of the block of calendars[k]
  errors,      \* parseIcsData's `errors`
  warnings,    \* parseIcsData's `warnings`
  thrown,      \* the message of the Error on its way to the outer catch clause
  console,     \* what console.log, console.warn and console.error printed
  result       \* the settled promise

vars == <<args, calls, data, debug, pc, lines, i, nodes, blocks, stack, caught, rootBlocks, r,
          calendars, source, errors, warnings, thrown, console, result>>

builderVars == <<nodes, blocks, stack>>
stepThreeVars == <<rootBlocks, r, calendars, source, errors, warnings>>

Pending == [status |-> "pending"]

NoArguments == [k \in {} |-> <<>>]

NoCalls == <<>>

Init ==
  /\ args = NoArguments
  /\ calls = NoCalls
  /\ data \in Inputs
  /\ debug \in BOOLEAN
  /\ pc = "start"
  /\ lines = <<>>
  /\ i = 1
  /\ nodes = <<>>
  /\ blocks = <<>>
  /\ stack = <<>>
  /\ caught = <<>>
  /\ rootBlocks = <<>>
  /\ r = 1
  /\ calendars = <<>>
  /\ source = <<>>
  /\ errors = <<>>
  /\ warnings = <<>>
  /\ thrown = <<>>
  /\ console = <<>>
  /\ result = Pending

\* Step 1: unfoldLines, with the debug output around it
Unfold ==
  /\ pc = "start"
  /\ lines' = unfoldLines(data)
  /\ console' = LogIf(debug, console, consoleInput(lines'))
  /\ pc' = "build"
  /\ UNCHANGED <<args, calls, data, debug, i, builderVars, caught, stepThreeVars, thrown, result>>

Builder == [nodes |-> nodes, blocks |-> blocks, stack |-> stack]

\* parseIntoBlocks is at line i, and the line takes branch `kind`
AtLine(kind) ==
  /\ pc = "build"
  /\ i <= Len(lines)
  /\ lineKind(Builder, trim(lines[i])) = kind

\* the loop body ran without throwing and left the builder as `b`
LineDone(b) ==
  /\ nodes' = b.nodes
  /\ blocks' = b.blocks
  /\ stack' = b.stack
  /\ i' = i + 1
  /\ UNCHANGED <<args, calls, data, debug, pc, lines, caught, stepThreeVars, thrown, console, result>>

BeginLine ==
  /\ AtLine("begin")
  /\ LineDone(beginBlock(Builder, substringFrom(trim(lines[i]), 6)))

EndLine ==
  /\ AtLine("end")
  /\ LineDone(endBlock(Builder))

PropertyLine ==
  /\ AtLine("property")
  /\ LineDone(addProperty(Builder, parsePropertyLine(trim(lines[i]))))

\* a catch clause that closes the open component before the loop goes on
LineCaughtPops(kind) ==
  /\ caught' = Append(caught, lineErrorMessage(kind, Builder, trim(lines[i]), i))
  /\ console' = catchLineError(kind, Builder, trim(lines[i]), i, debug, console)
  /\ i' = i + 1
  /\ stack' = SubSeq(stack, 1, Len(stack) - 1)
  /\ UNCHANGED <<args, calls, data, debug, pc, lines, nodes, blocks, stepThreeVars, thrown,
                 result>>

\* the loop body threw: the catch clause warns with debug, and the loop
\* goes on with the next line
LineCaught(kind) ==
  /\ caught' = Append(caught, lineErrorMessage(kind, Builder, trim(lines[i]), i))
  /\ console' = catchLineError(kind, Builder, trim(lines[i]), i, debug, console)
  /\ i' = i + 1
  /\ UNCHANGED <<args, calls, data, debug, pc, lines, builderVars, stepThreeVars, thrown, result>>

UnexpectedEnd ==
  /\ AtLine("unexpectedEnd")
  /\ LineCaught("unexpectedEnd")

MismatchedEnd ==
  /\ AtLine("mismatchedEnd")
  /\ LineCaught("mismatchedEnd")

PropertyOutside ==
  /\ AtLine("propertyOutside")
  /\ LineCaught("propertyOutside")

InvalidProperty ==
  /\ AtLine("invalidProperty")
  /\ LineCaught("invalidProperty")

\* after the loop: unclosed components throw out of parseIntoBlocks, into
\* the outer catch clause of parseIcsData
ThrowUnclosed ==
  /\ pc = "build"
  /\ i > Len(lines)
  /\ unclosedComponents(Builder)
  /\ thrown' = unclosedMessage(Builder)
  /\ pc' = "catch"
  /\ UNCHANGED <<args, calls, data, debug, lines, i, builderVars, caught, stepThreeVars, console, result>>

\* after the loop: parseIntoBlocks returns `blocks`
ReturnBlocks ==
  /\ pc = "build"
  /\ i > Len(lines)
  /\ ~unclosedComponents(Builder)
  /\ rootBlocks' = RootBlocks(Builder)
  /\ console' = LogIf(debug, console, consoleBlocks(rootBlocks'))
  /\ pc' = "calendars"
  /\ UNCHANGED <<args, calls, data, debug, lines, i, builderVars, caught, r, calendars, source, errors,
                 warnings, thrown, result>>

Accumulated ==
  [calendars |-> calendars, errors |-> errors, warnings |-> warnings, console |-> console]

\* Step 3 is at root block r
AtRootBlock == pc = "calendars" /\ r <= Len(rootBlocks)

\* one pass of Step 3's loop left calendars, errors, warnings and the
\* console as in `acc`
RootBlockDone(acc) ==
  /\ calendars' = acc.calendars
  /\ errors' = acc.errors
  /\ warnings' = acc.warnings
  /\ console' = acc.console
  /\ source' = IF Len(acc.calendars) > Len(calendars) THEN Append(source, r) ELSE source
  /\ r' = r + 1
  /\ UNCHANGED <<args, calls, data, debug, pc, lines, i, builderVars, caught, rootBlocks, thrown, result>>

\* a VCALENDAR block that parseCalendarBlock returned a calendar for
CalendarParsed ==
  /\ AtRootBlock
  /\ rootBlocks[r].type = <<"V", "C", "A", "L", "E", "N", "D", "A", "R">>
  /\ RootBlockDone(processRootBlock(Accumulated, rootBlocks[r], debug))
  /\ Len(calendars') = Len(calendars) + 1

\* a VCALENDAR block for which parseCalendarBlock threw
CalendarFailed ==
  /\ AtRootBlock
  /\ rootBlocks[r].type = <<"V", "C", "A", "L", "E", "N", "D", "A", "R">>
  /\ RootBlockDone(processRootBlock(Accumulated, rootBlocks[r], debug))
  /\ Len(errors') = Len(errors) + 1

UnexpectedRoot ==
  /\ AtRootBlock
  /\ rootBlocks[r].type # <<"V", "C", "A", "L", "E", "N", "D", "A", "R">>
  /\ RootBlockDone(processRootBlock(Accumulated, rootBlocks[r], debug))

\* Step 4 and `return result`
ReturnResult ==
  /\ pc = "calendars"
  /\ r > Len(rootBlocks)
  /\ result' = [status |-> "resolved", value |-> parseResult(calendars, errors, warnings)]
  /\ console' = LogIf(debug, console, consoleResult(calendars))
  /\ pc' = "done"
  /\ UNCHANGED <<args, calls, data, debug, lines, i, builderVars, caught, stepThreeVars, thrown>>

\* the outer catch clause, were it to throw the Error on
CatchCriticalRethrows ==
  /\ pc = "catch"
  /\ result' = [status |-> "rejected", value |-> thrown]
  /\ pc' = "rejected"
  /\ UNCHANGED <<args, calls, data, debug, lines, i, builderVars, caught, stepThreeVars, thrown, console>>

\* the outer catch clause: one error string, and an empty result is returned
CatchCritical ==
  /\ pc = "catch"
  /\ result' = [status |-> "resolved", value |-> criticalResult(errors, warnings, thrown)]
  /\ errors' = result'.value.metadata.parseErrors
  /\ pc' = "done"
  /\ UNCHANGED <<args, calls, data, debug, lines, i, builderVars, caught, rootBlocks, r, calendars,
                 source, warnings, thrown, console>>

Next ==
  \/ Unfold
  \/ BeginLine
  \/ EndLine
  \/ PropertyLine
  \/ UnexpectedEnd
  \/ MismatchedEnd
  \/ PropertyOutside
  \/ InvalidProperty
  \/ ThrowUnclosed
  \/ ReturnBlocks
  \/ CalendarParsed
  \/ CalendarFailed
  \/ UnexpectedRoot
  \/ ReturnResult
  \/ CatchCritical

Spec == Init /\ [][Next]_vars

(***************************************************************************)
(* The functions of src/utils/icsUtils.ts called alone: one call of        *)
(* unescapeValue, unfoldLines or parsePropertyLine on arguments drawn from *)
(* bounded sets of strings.  pc names the function until it has returned.  *)
(***************************************************************************)

\* all strings over an alphabet up to a length
Texts(alphabet, n) == UNION {[1..k -> alphabet] : k \in 0..n}

MaxValueLen == 3

\* the characters unescapeValue reads or writes
EscapeAlphabet == {BS, "n", "r", "t", ";", ",", LF, CR, TAB}

Values == Texts(EscapeAlphabet, MaxValueLen)

\* the writer's side of unescapeValue: one character of a value, escaped
escapeChar(c) ==
  CASE c = BS -> <<BS, BS>>
    [] c = LF -> <<BS, "n">>
    [] c = CR -> <<BS, "r">>
    [] c = TAB -> <<BS, "t">>
    [] c = ";" -> <<BS, ";">>
    [] c = "," -> <<BS, ",">>
    [] OTHER -> <<c>>

escapeValue(value) == flatten([k \in 1..Len(value) |-> escapeChar(value[k])])

UnescapeArguments ==
  {[value |-> v] : v \in Values} \cup {[value |-> escapeValue(v)] : v \in Values}

MaxLineLen == 3

LineAlphabet == {"a", SP, TAB, CR}

\* the logical lines: not blank, no line feed
LogicalLines == {L \in Texts(LineAlphabet, MaxLineLen) : isNotBlank(L)}

\* the writer's side of unfoldLines: a line folded once, after its first k
\* characters
foldAt(L, k) == SubSeq(L, 1, k) \o <<CR, LF, SP>> \o SubSeq(L, k + 1, Len(L))

MaxTextLen == 4

\* texts with line feeds and carriage returns, alone and in pairs
TextAlphabet == {"a", SP, CR, LF}

UnfoldTexts == Texts(TextAlphabet, MaxTextLen)

UnfoldArguments ==
  {[content |-> foldAt(L, k)] : <<L, k>> \in
     {p \in LogicalLines \X (0..MaxLineLen) : p[2] <= Len(p[1])}}
  \cup {[content |-> text] : text \in UnfoldTexts}

MaxPropertyLen == 4

PropertyAlphabet == {"a", ":", BS, ";"}

MaxParameterLen == 2

ParameterAlphabet == {"b", BS, ",", DQ}

ParameterValues == Texts(ParameterAlphabet, MaxParameterLen)

\* a line "name;key=value:v" around a parameter value
parameterLine(name, key, value) == name \o <<";">> \o key \o <<"=">> \o value \o <<":", "v">>

PropertyArguments ==
  {[line |-> l] : l \in Texts(PropertyAlphabet, MaxPropertyLen)}
  \cup {[line |-> parameterLine(n, k, v)] :
          <<n, k, v>> \in {<<"a">>, <<"X", "-", "a">>} \X {<<"k">>, <<"K">>} \X ParameterValues}

UtilFunctions == {"unescapeValue", "unfoldLines", "parsePropertyLine"}

UtilInit ==
  /\ pc \in UtilFunctions
  /\ args \in CASE pc = "unescapeValue" -> UnescapeArguments
                [] pc = "unfoldLines" -> UnfoldArguments
                [] pc = "parsePropertyLine" -> PropertyArguments
  /\ calls = NoCalls
  /\ data = <<>>
  /\ debug = FALSE
  /\ lines = <<>>
  /\ i = 1
  /\ nodes = <<>>
  /\ blocks = <<>>
  /\ stack = <<>>
  /\ caught = <<>>
  /\ rootBlocks = <<>>
  /\ r = 1
  /\ calendars = <<>>
  /\ source = <<>>
  /\ errors = <<>>
  /\ warnings = <<>>
  /\ thrown = <<>>
  /\ console = <<>>
  /\ result = Pending

\* the call of `function` returns or throws `outcome`
UtilReturn(function, outcome) ==
  /\ pc = function
  /\ pc' = "done"
  /\ result' = outcome
  /\ UNCHANGED <<args, calls, data, debug, lines, i, nodes, blocks, stack, caught,
                 rootBlocks, r, calendars, source, errors, warnings, thrown, console>>

CallUnescapeValue ==
  /\ pc = "unescapeValue"
  /\ UtilReturn("unescapeValue",
                [status |-> "returned", value |-> unescapeValue(args.value)])

CallUnfoldLines ==
  /\ pc = "unfoldLines"
  /\ UtilReturn("unfoldLines",
                [status |-> "returned", value |-> unfoldLines(args.content)])

CallParsePropertyLine ==
  /\ pc = "parsePropertyLine"
  /\ UtilReturn("parsePropertyLine",
                IF parsePropertyLineThrows(args.line)
                THEN [status |-> "threw",
                      value |-> <<"Invalid property line: ", args.line>>]
                ELSE [status |-> "returned",
                      value |-> parsePropertyLine(args.line)])

UtilNext == CallUnescapeValue \/ CallUnfoldLines \/ CallParsePropertyLine

UtilSpec == UtilInit /\ [][UtilNext]_vars

(***************************************************************************)
(* Two calls of parseIcsData side by side.  Each call has its own locals   *)
(* (the variables of parseIcsData and of parseIntoBlocks are declared in   *)
(* the function bodies); the console is the one thing the calls share.     *)
(* A step of a call is a step of the single call above.                    *)
(***************************************************************************)

Callers == {"first", "second"}

\* a calendar, a root VEVENT before a line without colon, a calendar whose
\* VEVENT is never closed, and a calendar that fails validation
ConcurrentInputs ==
  {CalHead \o EvOk \o CalEnd, EvOk \o NoColon, CalHead \o BeginEvent, DocTodoWithoutUid}

\* the locals of a call when it starts
NewCall(text, debugOn) ==
  [data |-> text, debug |-> debugOn, pc |-> "start", lines |-> <<>>, i |-> 1,
   builder |-> EmptyBuilder, rootBlocks |-> <<>>, r |-> 1, calendars |-> <<>>,
   errors |-> <<>>, warnings |-> <<>>, result |-> Pending]

ConcurrentInit ==
  /\ calls \in [Callers -> {NewCall(t, d) : t \in ConcurrentInputs, d \in BOOLEAN}]
  /\ args = NoArguments
  /\ data = <<>>
  /\ debug = FALSE
  /\ pc = "calls"
  /\ lines = <<>>
  /\ i = 1
  /\ nodes = <<>>
  /\ blocks = <<>>
  /\ stack = <<>>
  /\ caught = <<>>
  /\ rootBlocks = <<>>
  /\ r = 1
  /\ calendars = <<>>
  /\ source = <<>>
  /\ errors = <<>>
  /\ warnings = <<>>
  /\ thrown = <<>>
  /\ console = <<>>
  /\ result = Pending

\* a call that reads the builder of the first call
firstCallBuilder(c) == calls["first"].builder

\* `blocks` and `stack` of the parseIntoBlocks of call c
CallBuilder(c) == calls[c].builder

\* a step of call c that leaves it as `call` and the console as `out`
CallStep(c, call, out) ==
  /\ calls' = [calls EXCEPT ![c] = call]
  /\ console' = out
  /\ UNCHANGED <<args, data, debug, pc, lines, i, builderVars, caught, stepThreeVars, thrown,
                 result>>

CallUnfoldStep(c, lineSeq) ==
  CallStep(c, [calls[c] EXCEPT !.lines = lineSeq, !.pc = "build"],
           LogIf(calls[c].debug, console, consoleInput(lineSeq)))

CallUnfold ==
  \E c \in Callers :
    /\ calls[c].pc = "start"
    /\ CallUnfoldStep(c, unfoldLines(calls[c].data))

CallLineStep(c, b, rawLine) ==
  CallStep(c, [calls[c] EXCEPT !.builder = builderLine(b, rawLine), !.i = @ + 1],
           builderLineConsole(b, rawLine, calls[c].i, calls[c].debug, console))

CallLine ==
  \E c \in Callers :
    /\ calls[c].pc = "build"
    /\ calls[c].i <= Len(calls[c].lines)
    /\ CallLineStep(c, CallBuilder(c), calls[c].lines[calls[c].i])

\* parseIntoBlocks throws for unclosed components and the outer catch
\* clause returns
CallCatchCritical ==
  \E c \in Callers :
    /\ calls[c].pc = "build"
    /\ calls[c].i > Len(calls[c].lines)
    /\ unclosedComponents(CallBuilder(c))
    /\ CallStep(c, [calls[c] EXCEPT
                      !.result = [status |-> "resolved",
                                  value |-> criticalResult(calls[c].errors,
                                                           calls[c].warnings,
                                                           unclosedMessage(CallBuilder(c)))],
                      !.pc = "done"],
                console)

CallReturnBlocksStep(c, blockSeq) ==
  CallStep(c, [calls[c] EXCEPT !.rootBlocks = blockSeq, !.pc = "calendars"],
           LogIf(calls[c].debug, console, consoleBlocks(blockSeq)))

CallReturnBlocks ==
  \E c \in Callers :
    /\ calls[c].pc = "build"
    /\ calls[c].i > Len(calls[c].lines)
    /\ ~unclosedComponents(CallBuilder(c))
    /\ CallReturnBlocksStep(c, RootBlocks(CallBuilder(c)))

CallRootBlockStep(c, acc) ==
  CallStep(c, [calls[c] EXCEPT !.calendars = acc.calendars, !.errors = acc.errors,
                               !.warnings = acc.warnings, !.r = @ + 1],
           acc.console)

CallRootBlock ==
  \E c \in Callers :
    /\ calls[c].pc = "calendars"
    /\ calls[c].r <= Len(calls[c].rootBlocks)
    /\ CallRootBlockStep(c, processRootBlock([calendars |-> calls[c].calendars,
                                              errors |-> calls[c].errors,
                                              warnings |-> calls[c].warnings,
                                              console |-> console],
                                             calls[c].rootBlocks[calls[c].r],
                                             calls[c].debug))

CallReturnResult ==
  \E c \in Callers :
    /\ calls[c].pc = "calendars"
    /\ calls[c].r > Len(calls[c].rootBlocks)
    /\ CallStep(c, [calls[c] EXCEPT
                      !.result = [status |-> "resolved",
                                  value |-> parseResult(calls[c].calendars, calls[c].errors,
                                                        calls[c].warnings)],
                      !.pc = "done"],
                LogIf(calls[c].debug, console, consoleResult(calls[c].calendars)))

ConcurrentNext ==
  \/ CallUnfold
  \/ CallLine
  \/ CallCatchCritical
  \/ CallReturnBlocks
  \/ CallRootBlock
  \/ CallReturnResult

ConcurrentSpec == ConcurrentInit /\ [][ConcurrentNext]_vars

(***************************************************************************)
(* Properties of the returned ParseResult                                  *)
(***************************************************************************)
Returned == pc = "done"

Metadata == result.value.metadata

IsSequence(s) == DOMAIN s = 1..Len(s)

Totals == {"totalEvents", "totalTodos", "totalJournals", "totalFreebusys", "totalTimezones"}

CountedField ==
  [totalEvents |-> "events", totalTodos |-> "todos", totalJournals |-> "journals",
   totalFreebusys |-> "freebusys", totalTimezones |-> "timezones"]

Rank ==
  CASE pc = "start" -> 4
    [] pc = "build" -> 3
    [] pc = "calendars" -> 2
    [] pc = "catch" -> 1
    [] OTHER -> 0

ResolvedWithParseResult ==
  /\ result.status = "resolved"
  /\ DOMAIN result.value = {"calendars", "metadata"}
  /\ IsSequence(result.value.calendars)
  /\ DOMAIN Metadata = Totals \cup {"parseErrors", "parseWarnings"}
  /\ \A t \in Totals : Metadata[t] \in Nat
  /\ IsSequence(Metadata.parseErrors)
  /\ IsSequence(Metadata.parseWarnings)

\* the statement parseIcsData is at has a branch for the state it is in
SomeBranchApplies ==
  CASE pc = "start" -> TRUE
    [] pc = "build" ->
         \/ i > Len(lines)
         \/ lineKind(Builder, trim(lines[i])) \in {"begin", "end", "property"} \cup LineErrors
    [] pc = "calendars" ->
         \/ r > Len(rootBlocks)
         \/ rootBlocks[r].type # <<"V", "C", "A", "L", "E", "N", "D", "A", "R">>
         \/ Len(processRootBlock(Accumulated, rootBlocks[r], debug).calendars)
              + Len(processRootBlock(Accumulated, rootBlocks[r], debug).errors)
              = Len(calendars) + Len(errors) + 1
    [] pc = "catch" -> TRUE
    [] OTHER -> FALSE

NeverRejected ==
  /\ pc # "rejected"
  /\ result.status # "rejected"
  /\ Returned => ResolvedWithParseResult
  /\ ~Returned => SomeBranchApplies
  /\ i <= Len(lines) + 1
  /\ r <= Len(rootBlocks) + 1

\* every step moves on to a later stage, or to the next line or root block
StepAdvances == Rank' < Rank \/ (Rank' = Rank /\ i' + r' > i + r)

\* C1: for every input text and either value of debug, parseIcsData comes to
\* return, and what it returns is a resolved ParseResult with a calendars
\* sequence and a metadata record holding the five counts, parseErrors and
\* parseWarnings; it never throws or rejects: no state is a rejection, every
\* state before the return has a step to take, and every step brings the
\* return nearer.
C1_AlwaysResolves == []NeverRejected /\ [][StepAdvances]_vars

\* a call that caught a failing calendar, kept another one and returned
C1_Witness ==
  /\ Returned
  /\ result.value.calendars # <<>>
  /\ Metadata.parseErrors # <<>>
  /\ Metadata.parseWarnings # <<>>

\* the sum of the lengths of field k over the calendars
SumOfLengths(calendarSeq, k) ==
  LET sum[n \in 0..Len(calendarSeq)] ==
        IF n = 0 THEN 0 ELSE sum[n - 1] + Len(calendarSeq[n][k])
  IN sum[Len(calendarSeq)]

\* C2: in the returned ParseResult each of totalEvents, totalTodos,
\* totalJournals, totalFreebusys and totalTimezones equals the sum of the
\* lengths of events, todos, journals, freebusys and timezones over the
\* returned calendars, on the normal return path and on the fatal one.
C2_TotalsAreSums ==
  Returned =>
    \A t \in Totals : Metadata[t] = SumOfLengths(result.value.calendars, CountedField[t])

\* two calendars returned, with events in both and a todo in one
C2_Witness ==
  /\ Returned
  /\ Len(result.value.calendars) = 2
  /\ \A k \in 1..2 : Len(result.value.calendars[k].events) > 0
  /\ Metadata.totalEvents > Len(result.value.calendars[1].events)
  /\ Metadata.totalTodos > 0

\* C3: one VCALENDAR with VERSION:2.0 and a PRODID holding one VEVENT with
\* UID, DTSTAMP, DTSTART, DTEND and SUMMARY:Team Meeting yields exactly one
\* calendar with exactly one event, totalEvents = 1, that event's summary
\* "Team Meeting", and empty parseErrors and parseWarnings.
C3_TeamMeeting ==
  (Returned /\ data = DocTeamMeeting) =>
    /\ Len(result.value.calendars) = 1
    /\ Len(result.value.calendars[1].events) = 1
    /\ Metadata.totalEvents = 1
    /\ result.value.calendars[1].events[1].summary = <<"T", "e", "a", "m", " ", "M", "e", "e", "t", "i", "n", "g">>
    /\ Metadata.parseErrors = <<>>
    /\ Metadata.parseWarnings = <<>>

C3_Witness == Returned /\ data = DocTeamMeeting /\ debug /\ Len(calendars) = 1

\* C4: if a component is still open after the last line, parseIcsData
\* returns no calendars, five zero counts and exactly one string in
\* parseErrors, also when earlier root VCALENDAR blocks were complete and
\* valid.
C4_UnclosedIsFatal ==
  (Returned /\ stack # <<>>) =>
    /\ result.value.calendars = <<>>
    /\ \A t \in Totals : Metadata[t] = 0
    /\ Len(Metadata.parseErrors) = 1

\* an open component after a root VCALENDAR that was complete and valid
C4_Witness ==
  /\ Returned
  /\ stack # <<>>
  /\ Len(blocks) >= 2
  /\ nodes[blocks[1]].type = <<"V", "C", "A", "L", "E", "N", "D", "A", "R">>
  /\ blocks[1] \notin {stack[k] : k \in 1..Len(stack)}
  /\ parseCalendarBlock(ComponentBlock(nodes, blocks[1]), debug).ok

HasProperty(block, name) ==
  \E p \in 1..Len(block.properties) : block.properties[p].name = name

DtendAndDuration(block) == HasProperty(block, <<"D", "T", "E", "N", "D">>) /\ HasProperty(block, <<"D", "U", "R", "A", "T", "I", "O", "N">>)

SubComponentsOf(block, types) == SelectSeq(block.subComponents, LAMBDA b : b.type \in types)

\* the events of the VEVENTs of a block that parseEventBlock returns one for
EventsOf(block) ==
  LET parsed == SelectSeq([k \in 1..Len(block.subComponents) |->
                             IF block.subComponents[k].type = <<"V", "E", "V", "E", "N", "T">>
                             THEN parseEventBlock(block.subComponents[k])
                             ELSE [ok |-> FALSE]],
                          LAMBDA e : e.ok)
  IN [k \in 1..Len(parsed) |-> parsed[k].value]

\* a VCALENDAR with nothing but VERSION:2.0, a PRODID and VEVENTs
PlainCalendar(block) ==
  /\ block.type = <<"V", "C", "A", "L", "E", "N", "D", "A", "R">>
  /\ Len(block.properties) = 2
  /\ block.properties[1].name = <<"V", "E", "R", "S", "I", "O", "N">> /\ block.properties[1].value = <<"2", ".", "0">>
  /\ block.properties[2].name = <<"P", "R", "O", "D", "I", "D">> /\ block.properties[2].value # <<>>
  /\ \A k \in 1..Len(block.subComponents) : block.subComponents[k].type = <<"V", "E", "V", "E", "N", "T">>

Sources == {source[k] : k \in 1..Len(source)}

\* C5: no event of a returned calendar has both dtend and duration; a VEVENT
\* with both a DTEND and a DURATION property is left out of its calendar's
\* events, while the calendar and its other valid events are returned.
C5_DtendXorDuration ==
  Returned =>
    /\ \A k \in 1..Len(result.value.calendars) :
         /\ \A e \in 1..Len(result.value.calendars[k].events) :
              ~(Has(result.value.calendars[k].events[e], "dtend")
                /\ Has(result.value.calendars[k].events[e], "duration"))
         /\ result.value.calendars[k].events = EventsOf(rootBlocks[source[k]])
         /\ \A s \in 1..Len(rootBlocks[source[k]].subComponents) :
              (/\ rootBlocks[source[k]].subComponents[s].type = <<"V", "E", "V", "E", "N", "T">>
               /\ DtendAndDuration(rootBlocks[source[k]].subComponents[s]))
                => ~parseEventBlock(rootBlocks[source[k]].subComponents[s]).ok
    /\ \A b \in 1..Len(rootBlocks) : PlainCalendar(rootBlocks[b]) => b \in Sources

\* a returned calendar that lost VEVENTs with DTEND and DURATION, one of
\* them with an empty DURATION, and kept events before and after them
C5_Witness ==
  /\ Returned
  /\ \E k \in 1..Len(result.value.calendars) :
       LET vevents == SubComponentsOf(rootBlocks[source[k]], {<<"V", "E", "V", "E", "N", "T">>})
       IN /\ Len(vevents) = 4
          /\ ~DtendAndDuration(vevents[1])
          /\ DtendAndDuration(vevents[2])
          /\ DtendAndDuration(vevents[3])
          /\ \E p \in 1..Len(vevents[3].properties) :
               /\ vevents[3].properties[p].name = <<"D", "U", "R", "A", "T", "I", "O", "N">>
               /\ vevents[3].properties[p].value = <<>>
          /\ ~DtendAndDuration(vevents[4])
          /\ Len(result.value.calendars[k].events) = 2

FiveTypes == {<<"V", "E", "V", "E", "N", "T">>, <<"V", "T", "O", "D", "O">>, <<"V", "J", "O", "U", "R", "N", "A", "L">>, <<"V", "F", "R", "E", "E", "B", "U", "S", "Y">>, <<"V", "T", "I", "M", "E", "Z", "O", "N", "E">>}

\* how many sub-components of the five types the k-th returned calendar lacks
Dropped(k) ==
  Len(SubComponentsOf(rootBlocks[source[k]], FiveTypes))
    - ( Len(result.value.calendars[k].events) + Len(result.value.calendars[k].todos)
      + Len(result.value.calendars[k].journals) + Len(result.value.calendars[k].freebusys)
      + Len(result.value.calendars[k].timezones) )

\* C6: whenever a VEVENT, VTODO, VJOURNAL, VFREEBUSY or VTIMEZONE
\* sub-component of a returned calendar is dropped, parseWarnings or
\* parseErrors holds at least one string, with debug and without.
C6_DroppedIsRecorded ==
  (Returned /\ \E k \in 1..Len(result.value.calendars) : Dropped(k) > 0) =>
    Len(Metadata.parseWarnings) + Len(Metadata.parseErrors) > 0

\* C7: for every line the block builder skips after a per-line failure, a
\* string is appended to parseWarnings of the returned result.
C7_SkippedLinesAreWarned == Returned => Len(Metadata.parseWarnings) >= Len(caught)

\* C8: debug never changes the result: what the call with `debug` returns
\* equals what parseIcsData returns for the same text with the other value
\* of debug.
C8_DebugIsSideChannel == Returned => result.value = parseIcsData(data, ~debug).value

\* a debug call that printed warnings of a skipped line and of a dropped
\* event, and the error of a failed calendar
C8_Witness ==
  /\ Returned
  /\ debug
  /\ \E a, b, c \in 1..Len(console) :
       /\ console[a][1] = "warn" /\ console[a][2] = "Warning at line "
       /\ console[b][1] = "warn" /\ console[b][2] = "Failed to parse event: "
       /\ console[c][1] = "error"

\* the block without its sub-components of other types than the five
WithoutUnknown(block) ==
  [block EXCEPT !.subComponents = SubComponentsOf(block, FiveTypes)]

UnknownOf(block) ==
  LET unknown == SelectSeq(block.subComponents, LAMBDA b : b.type \notin FiveTypes)
  IN [k \in 1..Len(unknown) |->
        [type |-> unknown[k].type, rawData |-> JSONstringify(unknown[k])]]

CalendarRoots == {b \in 1..Len(rootBlocks) : rootBlocks[b].type = <<"V", "C", "A", "L", "E", "N", "D", "A", "R">>}

\* C9: the direct sub-components of a VCALENDAR of another type than VEVENT,
\* VTODO, VJOURNAL, VFREEBUSY and VTIMEZONE are its calendar's
\* unparsedComponents, each with its type unchanged and its dump, in input
\* order; they add no warning and no error, and the calendar is returned or
\* fails as it would without them.
C9_UnknownArePreserved ==
  (Returned /\ stack = <<>>) =>
    /\ \A k \in 1..Len(result.value.calendars) :
         result.value.calendars[k].unparsedComponents = UnknownOf(rootBlocks[source[k]])
    /\ \A b \in CalendarRoots :
         /\ parseCalendarBlock(WithoutUnknown(rootBlocks[b]), debug).ok <=> b \in Sources
    /\ Len(Metadata.parseWarnings) = Len(rootBlocks) - Cardinality(CalendarRoots)
    /\ Len(Metadata.parseErrors) = Cardinality(CalendarRoots) - Len(result.value.calendars)

\* a returned calendar with two unknown sub-components around valid ones
C9_Witness ==
  /\ Returned
  /\ \E k \in 1..Len(result.value.calendars) :
       /\ Len(result.value.calendars[k].unparsedComponents) = 2
       /\ result.value.calendars[k].unparsedComponents[1].type = <<"V", "A", "L", "A", "R", "M">>
       /\ result.value.calendars[k].unparsedComponents[2].type = <<"v", "a", "l", "a", "r", "m">>
       /\ Len(result.value.calendars[k].events) > 0
  /\ Metadata.parseWarnings = <<>>
  /\ Metadata.parseErrors = <<>>

\* C10: the VEVENT line CATEGORIES:Work\,Fun,Travel gives the event the
\* categories "Work,Fun" and "Travel".
C10_EscapedCommaKept ==
  (Returned /\ data = DocCategories) =>
    /\ Len(result.value.calendars) = 1
    /\ Len(result.value.calendars[1].events) = 1
    /\ Has(result.value.calendars[1].events[1], "categories")
    /\ result.value.calendars[1].events[1].categories = <<<<"W", "o", "r", "k", ",", "F", "u", "n">>, <<"T", "r", "a", "v", "e", "l">>>>

(***************************************************************************)
(* Validation failures of components and of calendar records               *)
(***************************************************************************)

NormalReturn == Returned /\ result.value.calendars = calendars /\ stack = <<>>

\* a VTODO, VJOURNAL or VFREEBUSY whose record its own schema refuses
InvalidComponent(block) ==
  \/ block.type = <<"V", "T", "O", "D", "O">> /\ ~icsTodoSchema(parseTodoBlock(block))
  \/ block.type = <<"V", "J", "O", "U", "R", "N", "A", "L">> /\ ~icsJournalSchema(parseJournalBlock(block))
  \/ block.type = <<"V", "F", "R", "E", "E", "B", "U", "S", "Y">> /\ ~icsFreebusySchema(parseFreebusyBlock(block))

WithoutInvalid(block) ==
  [block EXCEPT !.subComponents = SelectSeq(@, LAMBDA b : ~InvalidComponent(b))]

\* the calendar a root block gives once its invalid components are dropped
CalendarWithoutInvalid(b) == parseCalendarBlock(WithoutInvalid(rootBlocks[b]), debug)

ReturnedAs(b, calendar) ==
  \E k \in 1..Len(result.value.calendars) :
    source[k] = b /\ result.value.calendars[k] = calendar

\* C13: a VTODO, VJOURNAL or VFREEBUSY that fails validation is dropped from
\* its sequence and nothing more: its calendar is returned with all its
\* other valid events, todos, journals and freebusys
C13_InvalidComponentIsDropped ==
  NormalReturn =>
    \A b \in CalendarRoots :
      CalendarWithoutInvalid(b).ok => ReturnedAs(b, CalendarWithoutInvalid(b).value)

\* the value of the last property of that name (each assignment of the
\* record's field replaces the one before)
LastValue(block, name) ==
  LET at == {p \in 1..Len(block.properties) : block.properties[p].name = name}
  IN block.properties[CHOOSE p \in at : \A q \in at : q <= p].value

\* the calendar record of a root block fails validation on its own fields
RecordFails(block) ==
  \/ ~HasProperty(block, <<"V", "E", "R", "S", "I", "O", "N">>)
  \/ ~HasProperty(block, <<"P", "R", "O", "D", "I", "D">>)
  \/ LastValue(block, <<"V", "E", "R", "S", "I", "O", "N">>) # <<"2", ".", "0">>
  \/ LastValue(block, <<"P", "R", "O", "D", "I", "D">>) = <<>>
  \/ HasProperty(block, <<"C", "A", "L", "S", "C", "A", "L", "E">>) /\ LastValue(block, <<"C", "A", "L", "S", "C", "A", "L", "E">>) # <<"G", "R", "E", "G", "O", "R", "I", "A", "N">>
  \/ /\ HasProperty(block, <<"M", "E", "T", "H", "O", "D">>)
     /\ LastValue(block, <<"M", "E", "T", "H", "O", "D">>) \notin
          {<<"P", "U", "B", "L", "I", "S", "H">>, <<"R", "E", "Q", "U", "E", "S", "T">>, <<"R", "E", "P", "L", "Y">>, <<"A", "D", "D">>, <<"C", "A", "N", "C", "E", "L">>, <<"R", "E", "F", "R", "E", "S", "H">>, <<"C", "O", "U", "N", "T", "E", "R">>,
           <<"D", "E", "C", "L", "I", "N", "E", "C", "O", "U", "N", "T", "E", "R">>}

FailedRoots == {b \in CalendarRoots : ~parseCalendarBlock(rootBlocks[b], debug).ok}

\* C14: a root VCALENDAR whose calendar record fails validation is not among
\* the returned calendars and adds exactly one string to parseErrors; every
\* other root VCALENDAR, before or after it, is parsed and returned
C14_BadCalendarIsExcluded ==
  NormalReturn =>
    /\ \A b \in CalendarRoots : RecordFails(rootBlocks[b]) => b \in FailedRoots
    /\ \A b \in FailedRoots : b \notin Sources
    /\ Len(Metadata.parseErrors) = Cardinality(FailedRoots)
    /\ \A b \in CalendarRoots \ FailedRoots :
         ReturnedAs(b, parseCalendarBlock(rootBlocks[b], debug).value)
    /\ \A k \in 1..(Len(source) - 1) : source[k] < source[k + 1]

\* six calendars whose record fails, for each of the reasons, with returned
\* calendars before, between and after them
C14_Witness ==
  /\ NormalReturn
  /\ Cardinality({b \in CalendarRoots : RecordFails(rootBlocks[b])}) = 6
  /\ Len(Metadata.parseErrors) = 6
  /\ Sources = {1, 4, 9}

(***************************************************************************)
(* The block builder                                                       *)
(***************************************************************************)

\* the builder after the loop over a line sequence
BuilderOf(lineSeq) ==
  builderLoop([builder |-> EmptyBuilder, console |-> <<>>], lineSeq, 1, FALSE).builder

\* the lines of a sequence that fail where the loop meets them: the loop from
\* line j on, with the builder b it has there
RECURSIVE FailedFrom(_, _, _, _)
FailedFrom(b, lineSeq, j, failed) ==
  IF Evaluated(b) /\ Evaluated(failed) /\ j > Len(lineSeq) THEN failed
  ELSE FailedFrom(builderLine(b, lineSeq[j]), lineSeq, j + 1,
                  IF lineKind(b, trim(lineSeq[j])) \in LineErrors
                  THEN failed \cup {j} ELSE failed)

FailedLines(lineSeq) == FailedFrom(EmptyBuilder, lineSeq, 1, {})

\* the sequence with the lines at the positions J removed
WithoutLines(lineSeq, J) ==
  LET keep == SelectSeq([k \in 1..Len(lineSeq) |-> k], LAMBDA k : k \notin J)
  IN [k \in 1..Len(keep) |-> lineSeq[keep[k]]]

InBuilder == pc = "build"

\* the loop is over: the tree is the final one
TreeAsWithoutFailed ==
  (InBuilder /\ i > Len(lines)) =>
    /\ Len(caught) = Cardinality(FailedLines(lines))
    /\ Builder = BuilderOf(WithoutLines(lines, FailedLines(lines)))
    /\ \A j \in FailedLines(lines) : Builder = BuilderOf(WithoutLines(lines, {j}))

FailedLineIsSkipped ==
  (InBuilder /\ i <= Len(lines) /\ lineKind(Builder, trim(lines[i])) \in LineErrors)
    => (UNCHANGED builderVars /\ i' = i + 1 /\ pc' = pc)

\* C15: a line that fails in the block builder changes neither the stack
\* nor any block, the loop goes on with the next line, and the tree built
\* is the tree built from the lines without the failing line
C15_FailedLineIsSkipped == []TreeAsWithoutFailed /\ [][FailedLineIsSkipped]_vars

\* the loop is over lines of which one failed inside an open component and
\* was followed by lines that changed the tree
C15_Witness ==
  /\ InBuilder
  /\ i > Len(lines)
  /\ \E j \in FailedLines(lines) :
       /\ BuilderOf(SubSeq(lines, 1, j - 1)).stack # <<>>
       /\ BuilderOf(SubSeq(lines, 1, j)) # Builder

\* the type that the line END:<T> at line i names
EndType == substringFrom(trim(lines[i]), 4)

AtEndLine == InBuilder /\ i <= Len(lines) /\ startsWith(trim(lines[i]), <<"E", "N", "D", ":">>)

TopMatches == stack # <<>> /\ nodes[stack[Len(stack)]].type = EndType

Popped == stack' = SubSeq(stack, 1, Len(stack) - 1) /\ Len(stack') = Len(stack) - 1

EndPopsIffTopMatches ==
  AtEndLine =>
    /\ TopMatches <=> Popped
    /\ ~TopMatches => stack' = stack
    /\ UNCHANGED <<nodes, blocks>>

\* C19: a line END:<T> pops the stack if and only if the stack is not empty
\* and the type of its top block is T exactly; otherwise the line fails and
\* the stack keeps its depth and its contents
C19_EndPopsIffTopMatches == [][EndPopsIffTopMatches]_vars

\* an END of another type than the open component has been skipped inside
\* two open components
C19_Witness ==
  /\ InBuilder
  /\ i > 1
  /\ Len(stack) >= 2
  /\ startsWith(trim(lines[i - 1]), <<"E", "N", "D", ":">>)
  /\ substringFrom(trim(lines[i - 1]), 4) = nodes[stack[1]].type
  /\ substringFrom(trim(lines[i - 1]), 4) # nodes[stack[Len(stack)]].type

Top(k) == nodes[stack[k]]

Ids == 1..Len(nodes)

Children(id) == {nodes[id].subComponents[k] : k \in 1..Len(nodes[id].subComponents)}

Parents(id) == {p \in Ids : id \in Children(p)}

RECURSIVE Descendants(_)
Descendants(id) == {id} \cup UNION {Descendants(c) : c \in Children(id)}

NoDuplicates(s) == \A j, k \in 1..Len(s) : s[j] = s[k] => j = k

\* the stack is a chain of last sub-components that starts at the last root
StackIsChain ==
  /\ stack # <<>> => stack[1] = blocks[Len(blocks)]
  /\ \A k \in 2..Len(stack) :
       /\ Top(k - 1).subComponents # <<>>
       /\ Top(k - 1).subComponents[Len(Top(k - 1).subComponents)] = stack[k]

ProcessedLines == 1..(i - 1)

BeginLines == {j \in ProcessedLines : startsWith(trim(lines[j]), <<"B", "E", "G", "I", "N", ":">>)}

EndLines == {j \in ProcessedLines : startsWith(trim(lines[j]), <<"E", "N", "D", ":">>)}

DepthIsBeginsMinusPops ==
  Len(stack) = Cardinality(BeginLines)
                 - Cardinality(EndLines \ FailedLines(SubSeq(lines, 1, i - 1)))

\* every block is a root or has one parent that holds it once, never both,
\* and is below exactly one root
BlocksFormTrees ==
  /\ NoDuplicates(blocks)
  /\ \A id \in Ids :
       /\ NoDuplicates(nodes[id].subComponents)
       /\ Children(id) \subseteq (id + 1)..Len(nodes)
       /\ IF \E k \in 1..Len(blocks) : blocks[k] = id
          THEN Parents(id) = {}
          ELSE Cardinality(Parents(id)) = 1
       /\ Cardinality({k \in 1..Len(blocks) : id \in Descendants(blocks[k])}) = 1

\* C20: after every prefix of the lines the stack is a chain of the tree
\* (its bottom is the last root, each other element the last sub-component
\* of the one below), its depth is the number of BEGIN lines minus the
\* number of END lines that popped, and every block is below exactly one
\* root through exactly one parent
C20_StackIsChain == StackIsChain /\ DepthIsBeginsMinusPops /\ BlocksFormTrees

\* three open components, in a second root, after an END that popped and an
\* END that did not
C20_Witness ==
  /\ InBuilder
  /\ Len(stack) = 3
  /\ Len(blocks) = 2
  /\ EndLines \ FailedLines(SubSeq(lines, 1, i - 1)) # {}
  /\ EndLines \cap FailedLines(SubSeq(lines, 1, i - 1)) # {}

(***************************************************************************)
(* The functions of utils/icsUtils.ts, under UtilSpec                      *)
(***************************************************************************)

Called(argument) == pc = "done" /\ Has(args, argument)

\* C11: unescapeValue returns a value without backslash unchanged, and
\* returns v when given the escaped form of v, for every v over backslash,
\* n, r, t, semicolon, comma, line feed, carriage return and tab
C11_UnescapeRoundTrip ==
  Called("value") =>
    /\ (\A k \in 1..Len(args.value) : args.value[k] # BS)
         => result.value = args.value
    /\ \A v \in Values : args.value = escapeValue(v) => result.value = v

\* C12: a non-blank line without line break, folded by CRLF and a space at
\* any offset from 0 to its length, is unfolded to that one line
C12_FoldRoundTrip ==
  Called("content") =>
    \A L \in LogicalLines : \A k \in 0..Len(L) :
      args.content = foldAt(L, k) => result.value = <<L>>

\* a line folded strictly inside it has been unfolded to itself
C12_Witness ==
  /\ Called("content")
  /\ \E L \in LogicalLines : \E k \in 1..(Len(L) - 1) :
       args.content = foldAt(L, k) /\ result.value = <<L>>

\* the colons of a line that no backslash precedes
UnescapedColons(line) ==
  {k \in 1..Len(line) : line[k] = ":" /\ (k = 1 \/ line[k - 1] # BS)}

firstUnescapedColon(line) ==
  CHOOSE k \in UnescapedColons(line) : \A j \in UnescapedColons(line) : k <= j

\* the name of a "name;params" segment
nameOfSegment(segment) ==
  IF indexOf(segment, ";") = 0 THEN segment
  ELSE SubSeq(segment, 1, indexOf(segment, ";") - 1)

\* C17: parsePropertyLine splits a line at its first colon that no backslash
\* precedes (the name and parameters before it, the raw value after it), and
\* fails on a line without such a colon
C17_SplitsAtUnescapedColon ==
  Called("line") =>
    IF UnescapedColons(args.line) = {}
    THEN result.status = "threw"
    ELSE /\ result.status = "returned"
         /\ result.value.name =
              toUpperCase(nameOfSegment(
                SubSeq(args.line, 1, firstUnescapedColon(args.line) - 1)))
         /\ result.value.value =
              unescapeValue(SubSeq(args.line, firstUnescapedColon(args.line) + 1,
                                   Len(args.line)))

\* a parameter value without its enclosing double quotes (a lone quote counts
\* as enclosing, as it does in the code)
stripQuotes(value) ==
  IF Len(value) >= 1 /\ value[1] = DQ /\ value[Len(value)] = DQ
  THEN SubSeq(value, 2, Len(value) - 1)
  ELSE value

\* C18: in the token parsePropertyLine returns the name is uppercased, each
\* parameter key is uppercased and each parameter value is escape-decoded
\* after its enclosing double quotes are stripped
C18_ParametersAreDecoded ==
  (Called("line") /\ result.status = "returned") =>
    /\ result.value.name = toUpperCase(result.value.name)
    /\ \A key \in DOMAIN result.value.parameters : key = toUpperCase(key)
    /\ \A n \in {<<"a">>, <<"X", "-", "a">>} : \A k \in {<<"k">>, <<"K">>} : \A v \in ParameterValues :
         args.line = parameterLine(n, k, v) =>
           /\ result.value.name = toUpperCase(n)
           /\ DOMAIN result.value.parameters = {toUpperCase(k)}
           /\ result.value.parameters[toUpperCase(k)] = unescapeValue(stripQuotes(v))

(***************************************************************************)
(* Calls side by side, under ConcurrentSpec                                *)
(***************************************************************************)

\* what a call returns when it runs alone
Alone(call) ==
  [status |-> "resolved", value |-> parseIcsData(call.data, call.debug).value]

\* C16: two calls whose steps interleave in any order, one after the other
\* included, each return the ParseResult they return when run alone
C16_CallsAreIndependent ==
  \A c \in DOMAIN calls : calls[c].pc = "done" => calls[c].result = Alone(calls[c])

\* the first call has returned calendars while the second call, on another
\* text, is in its loop with components open
C16_Witness ==
  /\ calls["first"].pc = "done"
  /\ calls["first"].result.value.calendars # <<>>
  /\ calls["second"].pc = "build"
  /\ calls["second"].builder.stack # <<>>
  /\ calls["second"].data # calls["first"].data

\* the text with every CR LF replaced by LF
crlfToLf(text) == replacePair(text, CR, LF, <<LF>>)

\* C30: unfoldLines gives the same lines for a text and for the text with
\* every CR LF replaced by LF, stray carriage returns included, and no
\* line it returns is empty or only white space
C30_CrlfAsLf ==
  Called("content") =>
    /\ result.value = unfoldLines(crlfToLf(args.content))
    /\ \A k \in 1..Len(result.value) :
         \E c \in 1..Len(result.value[k]) : result.value[k][c] \notin WhiteSpace

(***************************************************************************)
(* Property lines in the block builder                                     *)
(***************************************************************************)

IsPropertyLine(line) == ~startsWith(line, <<"B", "E", "G", "I", "N", ":">>) /\ ~startsWith(line, <<"E", "N", "D", ":">>)

Tokenizes(line) == \E k \in 1..Len(line) : line[k] = ":"

\* for every line of a sequence the block that is on top of the stack when
\* the loop meets it, if it is a property line that tokenizes, and 0 if not
RECURSIVE OwnersFrom(_, _, _, _)
OwnersFrom(b, lineSeq, j, owners) ==
  IF Evaluated(b) /\ Evaluated(owners) /\ j > Len(lineSeq) THEN owners
  ELSE OwnersFrom(builderLine(b, lineSeq[j]), lineSeq, j + 1,
                  Append(owners,
                         IF /\ IsPropertyLine(trim(lineSeq[j]))
                            /\ Tokenizes(trim(lineSeq[j]))
                            /\ b.stack # <<>>
                         THEN b.stack[Len(b.stack)] ELSE 0))

Owners(lineSeq) == OwnersFrom(EmptyBuilder, lineSeq, 1, <<>>)

\* the tokens of the lines that `owners` gives to block id, in input order
TokensOf(id, lineSeq, owners) ==
  LET mine == SelectSeq([k \in 1..Len(lineSeq) |-> k], LAMBDA k : owners[k] = id)
  IN [k \in 1..Len(mine) |-> parsePropertyLine(trim(lineSeq[mine[k]]))]

PropertiesInInputOrder ==
  (InBuilder /\ i > Len(lines)) =>
    \A id \in Ids : nodes[id].properties = TokensOf(id, lines, Owners(lines))

PropertyGoesToTop ==
  (InBuilder /\ i <= Len(lines) /\ IsPropertyLine(trim(lines[i]))) =>
    /\ UNCHANGED <<blocks, stack>>
    /\ IF stack # <<>> /\ Tokenizes(trim(lines[i]))
       THEN nodes' = [nodes EXCEPT ![stack[Len(stack)]].properties =
                                     Append(@, parsePropertyLine(trim(lines[i])))]
       ELSE nodes' = nodes

\* C21: a property line that tokenizes while the stack is not empty is
\* appended to the block on top of the stack and to no other, so that every
\* block's properties are its lines in input order; a property line met
\* while the stack is empty is added to no block
C21_PropertyGoesToTop == []PropertiesInInputOrder /\ [][PropertyGoesToTop]_vars

\* a property has been appended to a nested block that already had a
\* sub-component closed
C21_Witness ==
  /\ InBuilder
  /\ i > 1
  /\ Len(stack) = 2
  /\ IsPropertyLine(trim(lines[i - 1]))
  /\ Top(2).subComponents # <<>>
  /\ Top(2).properties # <<>>
  /\ Top(2).properties[Len(Top(2).properties)] = parsePropertyLine(trim(lines[i - 1]))

(***************************************************************************)
(* Root blocks and order                                                   *)
(***************************************************************************)

OtherRoots == {b \in 1..Len(rootBlocks) : rootBlocks[b].type # <<"V", "C", "A", "L", "E", "N", "D", "A", "R">>}

\* C22: when the blocks are built, the returned calendars and the
\* parseErrors together are as many as the root blocks of type VCALENDAR
\* exactly, and the parseWarnings are as many as the root blocks of another
\* type, each an "Unexpected root component" warning
C22_RootsAreAccounted ==
  NormalReturn =>
    /\ Len(result.value.calendars) + Len(Metadata.parseErrors)
         = Cardinality(CalendarRoots)
    /\ Len(Metadata.parseWarnings) = Cardinality(OtherRoots)
    /\ \A w \in 1..Len(Metadata.parseWarnings) :
         \E b \in OtherRoots :
           Metadata.parseWarnings[w] = <<"Unexpected root component: ", rootBlocks[b].type>>
    /\ \A k \in 1..Len(source) : source[k] \in CalendarRoots

\* four roots of other types, a lower-case vcalendar among them, next to a
\* returned calendar and a failed one
C22_Witness ==
  /\ NormalReturn
  /\ Len(Metadata.parseWarnings) = 4
  /\ Len(Metadata.parseErrors) = 1
  /\ Len(result.value.calendars) = 1
  /\ \E b \in OtherRoots : rootBlocks[b].type = <<"v", "c", "a", "l", "e", "n", "d", "a", "r">>

\* the records a parser gives for the sub-components of one type, in order
TodosOf(block) ==
  [k \in 1..Len(SubComponentsOf(block, {<<"V", "T", "O", "D", "O">>})) |->
     parseTodoBlock(SubComponentsOf(block, {<<"V", "T", "O", "D", "O">>})[k])]

JournalsOf(block) ==
  [k \in 1..Len(SubComponentsOf(block, {<<"V", "J", "O", "U", "R", "N", "A", "L">>})) |->
     parseJournalBlock(SubComponentsOf(block, {<<"V", "J", "O", "U", "R", "N", "A", "L">>})[k])]

FreebusysOf(block) ==
  [k \in 1..Len(SubComponentsOf(block, {<<"V", "F", "R", "E", "E", "B", "U", "S", "Y">>})) |->
     parseFreebusyBlock(SubComponentsOf(block, {<<"V", "F", "R", "E", "E", "B", "U", "S", "Y">>})[k])]

TimezonesOf(block) ==
  [k \in 1..Len(SubComponentsOf(block, {<<"V", "T", "I", "M", "E", "Z", "O", "N", "E">>})) |->
     parseTimezoneBlock(SubComponentsOf(block, {<<"V", "T", "I", "M", "E", "Z", "O", "N", "E">>})[k])]

\* the types of the roots that are no VCALENDAR, in input order
OtherRootTypes ==
  LET other == SelectSeq(rootBlocks, LAMBDA b : b.type # <<"V", "C", "A", "L", "E", "N", "D", "A", "R">>)
  IN [k \in 1..Len(other) |-> other[k].type]

OrderAtReturn ==
  NormalReturn =>
    /\ \A k \in 1..(Len(source) - 1) : source[k] < source[k + 1]
    /\ \A k \in 1..Len(result.value.calendars) :
         /\ result.value.calendars[k].events = EventsOf(rootBlocks[source[k]])
         /\ result.value.calendars[k].todos = TodosOf(rootBlocks[source[k]])
         /\ result.value.calendars[k].journals = JournalsOf(rootBlocks[source[k]])
         /\ result.value.calendars[k].freebusys = FreebusysOf(rootBlocks[source[k]])
         /\ result.value.calendars[k].timezones = TimezonesOf(rootBlocks[source[k]])
         /\ result.value.calendars[k].unparsedComponents
              = UnknownOf(rootBlocks[source[k]])
    /\ Metadata.parseWarnings
         = [k \in 1..Len(OtherRootTypes) |->
              <<"Unexpected root component: ", OtherRootTypes[k]>>]

IsPrefix(s, t) == Len(s) <= Len(t) /\ SubSeq(t, 1, Len(s)) = s

\* calendars, errors and warnings only grow at their end, while the roots
\* are met from first to last
AppendOnly ==
  /\ IsPrefix(calendars, calendars') /\ Len(calendars') <= Len(calendars) + 1
  /\ IsPrefix(errors, errors') /\ Len(errors') <= Len(errors) + 1
  /\ IsPrefix(warnings, warnings') /\ Len(warnings') <= Len(warnings) + 1
  /\ r' >= r
  /\ (calendars' # calendars \/ warnings' # warnings) => r' = r + 1

Repeatable == {"attendee", "categories", "comment", "contact", "attach", "exdate",
               "related", "resources", "rdate"}

\* the returned events, of all calendars
ReturnedEvents ==
  UNION {{result.value.calendars[k].events[e] :
            e \in 1..Len(result.value.calendars[k].events)} :
         k \in 1..Len(result.value.calendars)}

\* the VEVENT blocks of the roots that gave the returned calendars
SourceEventBlocks ==
  UNION {{SubComponentsOf(rootBlocks[source[k]], {<<"V", "E", "V", "E", "N", "T">>})[e] :
            e \in 1..Len(SubComponentsOf(rootBlocks[source[k]], {<<"V", "E", "V", "E", "N", "T">>}))} :
         k \in 1..Len(source)}

\* the block has CATEGORIES lines, all with a blank value
OnlyBlankCategories(block) ==
  /\ HasProperty(block, <<"C", "A", "T", "E", "G", "O", "R", "I", "E", "S">>)
  /\ \A p \in 1..Len(block.properties) :
       block.properties[p].name = <<"C", "A", "T", "E", "G", "O", "R", "I", "E", "S">> => trim(block.properties[p].value) = <<>>

\* C24: in a returned event each of attendee, categories, comment, contact,
\* attach, exdate, related, resources, rdate and customProperties is absent
\* or not empty; CATEGORIES lines with a blank value leave categories absent
C24_NoEmptyField ==
  Returned =>
    /\ \A ev \in ReturnedEvents :
         /\ \A f \in Repeatable : Has(ev, f) => Len(ev[f]) > 0
         /\ Has(ev, "customProperties") => DOMAIN ev.customProperties # {}
    /\ \A block \in SourceEventBlocks :
         (OnlyBlankCategories(block) /\ parseEventBlock(block).ok)
           => /\ parseEventBlock(block).value \in ReturnedEvents
              /\ ~Has(parseEventBlock(block).value, "categories")

\* one calendar with an event that has blank CATEGORIES lines and no
\* repeatable field, an event with all ten and an event with none
C24_Witness ==
  /\ NormalReturn
  /\ Len(result.value.calendars) = 1
  /\ Len(result.value.calendars[1].events) = 3
  /\ \E block \in SourceEventBlocks :
       OnlyBlankCategories(block) /\ parseEventBlock(block).ok
  /\ \E ev \in ReturnedEvents :
       \A f \in Repeatable \cup {"customProperties"} : Has(ev, f)
  /\ \E ev \in ReturnedEvents :
       \A f \in Repeatable \cup {"customProperties"} : ~Has(ev, f)

\* a decimal integer and nothing else: an optional sign and digits
WellFormedInteger(text) ==
  LET body == IF Len(text) > 0 /\ text[1] \in {"-", "+"} THEN Tail(text) ELSE text
  IN Len(body) > 0 /\ \A k \in 1..Len(body) : body[k] \in Digits

\* the block has a PRIORITY or SEQUENCE line whose value is no integer
MalformedNumber(block) ==
  \E p \in 1..Len(block.properties) :
    /\ block.properties[p].name \in {<<"P", "R", "I", "O", "R", "I", "T", "Y">>, <<"S", "E", "Q", "U", "E", "N", "C", "E">>}
    /\ ~WellFormedInteger(block.properties[p].value)

WellFormedEvents(block) ==
  SelectSeq(SubComponentsOf(block, {<<"V", "E", "V", "E", "N", "T">>}), LAMBDA b : ~MalformedNumber(b))

\* C25: a VEVENT whose PRIORITY or SEQUENCE value is not entirely a decimal
\* integer (abc, the empty value, 5abc, 3.7) is not among the events
C25_MalformedNumberIsDropped ==
  NormalReturn =>
    \A k \in 1..Len(result.value.calendars) :
      Len(result.value.calendars[k].events) <= Len(WellFormedEvents(rootBlocks[source[k]]))

ReturnedTodos ==
  UNION {{result.value.calendars[k].todos[e] :
            e \in 1..Len(result.value.calendars[k].todos)} :
         k \in 1..Len(result.value.calendars)}

\* the number of a record's field is an integer from lo to hi
Within(record, field, lo, hi) ==
  Has(record, field) =>
    /\ ~record[field].isNaN
    /\ record[field].value \in Int
    /\ record[field].value >= lo
    /\ record[field].value <= hi

\* the number of a record's field is an integer from lo on
AtLeast(record, field, lo) ==
  Has(record, field) =>
    /\ ~record[field].isNaN
    /\ record[field].value \in Int
    /\ record[field].value >= lo

\* C26: in every returned calendar an event's priority is an integer in 0..9
\* and its sequence an integer >= 0, a todo's priority is an integer in 0..9
\* and its percentComplete an integer in 0..100, when present
C26_NumbersInRange ==
  Returned =>
    /\ \A ev \in ReturnedEvents :
         Within(ev, "priority", 0, 9) /\ AtLeast(ev, "sequence", 0)
    /\ \A todo \in ReturnedTodos :
         Within(todo, "priority", 0, 9) /\ Within(todo, "percentComplete", 0, 100)

\* a calendar returned with events of priority 9 and sequence 12 and a todo
\* of priority 0 and percentComplete 100, without its events out of range
C26_Witness ==
  /\ NormalReturn
  /\ \E ev \in ReturnedEvents :
       Has(ev, "priority") /\ ev.priority.value = 9 /\ ev.sequence.value = 12
  /\ \E todo \in ReturnedTodos :
       Has(todo, "priority") /\ todo.priority.value = 0 /\ todo.percentComplete.value = 100
  /\ \E k \in 1..Len(source) :
       Len(result.value.calendars[k].events)
         < Len(SubComponentsOf(rootBlocks[source[k]], {<<"V", "E", "V", "E", "N", "T">>}))

\* YYYYMMDDTHHMMSS with an optional Z
IsDateTime(text) ==
  /\ Len(text) \in {15, 16}
  /\ \A k \in (1..8) \cup (10..15) : text[k] \in Digits
  /\ text[9] = "T"
  /\ Len(text) = 16 => text[16] = "Z"

IsDateOnly(text) == Len(text) = 8 /\ \A k \in 1..8 : text[k] \in Digits

\* the last value of the property is outside of the enumeration
Unrecognized(block, name, values) ==
  HasProperty(block, name) /\ LastValue(block, name) \notin values

Statuses == {<<"T", "E", "N", "T", "A", "T", "I", "V", "E">>, <<"C", "O", "N", "F", "I", "R", "M", "E", "D">>, <<"C", "A", "N", "C", "E", "L", "L", "E", "D">>}

Classes == {<<"P", "U", "B", "L", "I", "C">>, <<"P", "R", "I", "V", "A", "T", "E">>, <<"C", "O", "N", "F", "I", "D", "E", "N", "T", "I", "A", "L">>}

Transparencies == {<<"O", "P", "A", "Q", "U", "E">>, <<"T", "R", "A", "N", "S", "P", "A", "R", "E", "N", "T">>}

\* a VEVENT that the claim keeps out of events
RefusedEvent(block) ==
  \/ ~HasProperty(block, <<"U", "I", "D">>)
  \/ ~HasProperty(block, <<"D", "T", "S", "T", "A", "M", "P">>)
  \/ IsDateOnly(LastValue(block, <<"D", "T", "S", "T", "A", "M", "P">>))
  \/ Unrecognized(block, <<"S", "T", "A", "T", "U", "S">>, Statuses)
  \/ Unrecognized(block, <<"C", "L", "A", "S", "S">>, Classes)
  \/ Unrecognized(block, <<"T", "R", "A", "N", "S", "P">>, Transparencies)

AcceptableEvents(block) ==
  SelectSeq(SubComponentsOf(block, {<<"V", "E", "V", "E", "N", "T">>}), LAMBDA b : ~RefusedEvent(b))

\* C27: a returned calendar has version 2.0 and a non-empty prodid; a
\* returned event has a non-empty uid, a dtstamp YYYYMMDDTHHMMSS with an
\* optional Z, and a status, class and transp of their enumerations; a VEVENT
\* without UID or DTSTAMP, with a date-only DTSTAMP or with an unrecognized
\* STATUS, CLASS or TRANSP is not among the events
C27_RequiredFieldsAreValid ==
  Returned =>
    /\ \A k \in 1..Len(result.value.calendars) :
         /\ result.value.calendars[k].version = <<"2", ".", "0">>
         /\ Len(result.value.calendars[k].prodid) > 0
         /\ Len(result.value.calendars[k].events)
              <= Len(AcceptableEvents(rootBlocks[source[k]]))
    /\ \A ev \in ReturnedEvents :
         /\ Has(ev, "uid") /\ Len(ev.uid) > 0
         /\ Has(ev, "dtstamp") /\ IsDateTime(ev.dtstamp)
         /\ Has(ev, "status") => ev.status \in Statuses
         /\ Has(ev, "class") => ev.class \in Classes
         /\ Has(ev, "transp") => ev.transp \in Transparencies
    /\ \A block \in SourceEventBlocks : RefusedEvent(block) => ~parseEventBlock(block).ok

\* a calendar returned with its two events that have a status, a class and
\* a transp, and without its eight other VEVENTs
C27_Witness ==
  /\ NormalReturn
  /\ Len(result.value.calendars) = 1
  /\ Len(result.value.calendars[1].events) = 2
  /\ \A ev \in ReturnedEvents : Has(ev, "status") /\ Has(ev, "class") /\ Has(ev, "transp")
  /\ Len(SubComponentsOf(rootBlocks[1], {<<"V", "E", "V", "E", "N", "T">>})) = 10
  /\ Len(AcceptableEvents(rootBlocks[1])) = 3

RecognizedCustom == {<<"X", "-", "W", "R", "-", "C", "A", "L", "N", "A", "M", "E">>, <<"X", "-", "W", "R", "-", "C", "A", "L", "D", "E", "S", "C">>, <<"X", "-", "W", "R", "-", "T", "I", "M", "E", "Z", "O", "N", "E">>, <<"X", "-", "P", "U", "B", "L", "I", "S", "H", "E", "D", "-", "T", "T", "L">>}

\* the names of the direct properties that belong in customProperties
CustomNames(block) ==
  {block.properties[p].name : p \in
     {q \in 1..Len(block.properties) :
        /\ startsWith(toUpperCase(block.properties[q].name), <<"X", "-">>)
        /\ toUpperCase(block.properties[q].name) \notin RecognizedCustom}}

ExpectedCustom(block) == [n \in CustomNames(block) |-> LastValue(block, n)]

RecognizedNames ==
  RecognizedCustom \cup {<<"V", "E", "R", "S", "I", "O", "N">>, <<"P", "R", "O", "D", "I", "D">>, <<"C", "A", "L", "S", "C", "A", "L", "E">>, <<"M", "E", "T", "H", "O", "D">>, <<"R", "E", "F", "R", "E", "S", "H", "-", "I", "N", "T", "E", "R", "V", "A", "L">>}

\* the block without its properties that are neither recognized nor custom
WithoutUnrecognized(block) ==
  [block EXCEPT !.properties =
     SelectSeq(@, LAMBDA p : p.name \in RecognizedNames \/ startsWith(p.name, <<"X", "-">>))]

\* C28: the customProperties of a calendar hold exactly its direct
\* properties whose name starts with X- and is not X-WR-CALNAME,
\* X-WR-CALDESC, X-WR-TIMEZONE or X-PUBLISHED-TTL, each with the value of its
\* last occurrence; other unrecognized properties are left out and cause no
\* failure
C28_CustomProperties ==
  NormalReturn =>
    /\ \A k \in 1..Len(result.value.calendars) :
         result.value.calendars[k].customProperties = ExpectedCustom(rootBlocks[source[k]])
    /\ \A b \in CalendarRoots :
         parseCalendarBlock(WithoutUnrecognized(rootBlocks[b]), debug).ok
           => ReturnedAs(b, parseCalendarBlock(WithoutUnrecognized(rootBlocks[b]), debug).value)

\* a calendar returned with four custom properties, one of them met three
\* times, from a block with recognized X- names and unrecognized names
C28_Witness ==
  /\ NormalReturn
  /\ Len(result.value.calendars) = 1
  /\ DOMAIN result.value.calendars[1].customProperties
       = {<<"X", "-", "A">>, <<"X", "-", "B">>, <<"X", "-">>, <<"X", "-", "W", "R", "-", "R", "E", "L", "C", "A", "L", "I", "D">>}
  /\ result.value.calendars[1].customProperties[<<"X", "-", "A">>] = <<"7">>
  /\ HasProperty(rootBlocks[1], <<"F", "O", "O">>)
  /\ HasProperty(rootBlocks[1], <<"X", "-", "W", "R", "-", "C", "A", "L", "N", "A", "M", "E">>)

(***************************************************************************)
(* VTIMEZONE                                                               *)
(***************************************************************************)

\* the VTIMEZONE blocks of the k-th returned calendar, as nodes of the tree
TimezoneNodes(k) ==
  SelectSeq(nodes[blocks[source[k]]].subComponents,
            LAMBDA id : nodes[id].type = <<"V", "T", "I", "M", "E", "Z", "O", "N", "E">>)

\* NAME:VALUE of the property lines of a block and of its sub-components,
\* in the order of the input lines
InputPropertyTexts(id, owners) ==
  LET mine == SelectSeq([j \in 1..Len(lines) |-> j],
                        LAMBDA j : owners[j] \in {id} \cup Children(id))
  IN [j \in 1..Len(mine) |-> PropertyText(parsePropertyLine(trim(lines[mine[j]])))]

\* the lines of a rawData that are no BEGIN and no END line
RawPropertyTexts(rawData) ==
  SelectSeq(split(rawData, LF), LAMBDA line : Len(line) > 0 /\ IsPropertyLine(line))

\* C29: the rawData of a timezone record has one NAME:VALUE line for each
\* property of its VTIMEZONE block and of each nested sub-component, joined
\* by line feeds, in the order of these lines in the input, and tzid is the
\* value of the TZID property when there is one
C29_TimezoneRawDataInOrder ==
  NormalReturn =>
    \A k \in 1..Len(result.value.calendars) :
      /\ Len(result.value.calendars[k].timezones) = Len(TimezoneNodes(k))
      /\ \A z \in 1..Len(TimezoneNodes(k)) :
           /\ RawPropertyTexts(result.value.calendars[k].timezones[z].rawData)
                = InputPropertyTexts(TimezoneNodes(k)[z], Owners(lines))
           /\ HasProperty(nodes[TimezoneNodes(k)[z]], <<"T", "Z", "I", "D">>)
                => result.value.calendars[k].timezones[z].tzid
                     = LastValue(nodes[TimezoneNodes(k)[z]], <<"T", "Z", "I", "D">>)
====
